---- MODULE Spec2Model ----
(***************************************************************************)
(* Verification model of the robots.txt engine: the wildcard pattern       *)
(* matcher (pattern-matcher.ts), the live resolver RobotsMatcher           *)
(* (matcher.ts) and the bulk rule index RulesCollectorHandler /            *)
(* ParsedRobots (parsed-robots.ts).                                        *)
(*                                                                         *)
(* Strings are sequences of one-character strings, so that indexing,       *)
(* slicing, case folding and token extraction are computed as the code     *)
(* computes them.                                                          *)
(***************************************************************************)
EXTENDS Integers, Sequences, FiniteSets, TLC

(***************************************************************************)
(* Bounds of the model.                                                    *)
(***************************************************************************)
\* longest path explored by the pattern-matcher specification
MaxPathLen == 3
\* longest pattern explored by the pattern-matcher specification
MaxPatLen == 3
\* number of logical lines of one parse
MaxLines == 4
\* number of logical lines of one parse in the long-text specification
MaxLongLines == 5
\* number of logical lines of one parse in the short-text specification
MaxShortLines == 3
\* number of logical lines of one parse in the reuse specification
MaxReuseLines == 3
\* number of allowedByRobots calls on one RobotsMatcher object
MaxCalls == 2
\* number of logical lines of one parse in the several-agents specification
MaxAgentsLines == 3
\* number of logical lines of one parse in the directory specification
MaxDirLines == 2

(***************************************************************************)
(* Program constants.                                                      *)
(***************************************************************************)
K_NO_MATCH_PRIORITY == -1

(***************************************************************************)
(* String helpers (JavaScript string primitives used by the code).         *)
(***************************************************************************)
LowerLetters == {"a","b","c","d","e","f","g","h","i","j","k","l","m",
                 "n","o","p","q","r","s","t","u","v","w","x","y","z"}
UpperLetters == {"A","B","C","D","E","F","G","H","I","J","K","L","M",
                 "N","O","P","Q","R","S","T","U","V","W","X","Y","Z"}
UpperSeq == <<"A","B","C","D","E","F","G","H","I","J","K","L","M",
              "N","O","P","Q","R","S","T","U","V","W","X","Y","Z">>
LowerSeq == <<"a","b","c","d","e","f","g","h","i","j","k","l","m",
              "n","o","p","q","r","s","t","u","v","w","x","y","z">>

\* /\s/ restricted to the white space a trimmed one-line value can hold
WhiteSpace == {" ", "\t", "\f"}

\* String.prototype.toLowerCase on one character
LowerChar(c) ==
    IF c \in UpperLetters
    THEN LowerSeq[CHOOSE i \in 1..26 : UpperSeq[i] = c]
    ELSE c

\* String.prototype.toLowerCase
toLowerCase(s) == [i \in 1..Len(s) |-> LowerChar(s[i])]

\* s.slice(from, to) with 0-based, end-exclusive JavaScript indices
Slice(s, from, to) == SubSeq(s, from + 1, to)

\* s.startsWith(prefix)
startsWith(s, prefix) ==
    /\ Len(s) >= Len(prefix)
    /\ SubSeq(s, 1, Len(prefix)) = prefix

\* s.lastIndexOf(c): 0-based index of the last c, -1 when absent
lastIndexOf(s, c) ==
    LET idx == {i \in 1..Len(s) : s[i] = c}
    IN IF idx = {} THEN -1
       ELSE (CHOOSE i \in idx : \A j \in idx : j <= i) - 1

\* all strings over alphabet of length at most n
StringsUpTo(alphabet, n) == UNION {[1..k -> alphabet] : k \in 0..n}

(***************************************************************************)
(* pattern-matcher.ts: matches(path, pattern).                             *)
(* The state of one call is the pos[] array (0-based, pathLen + 1 slots,   *)
(* unset slots hold Undef), numPos, the loop index p, and the outcome.     *)
(***************************************************************************)
Undef == -1

\* const pos = new Array(pathLen + 1); pos[0] = 0; let numPos = 1; p = 0
MatchStart(path) ==
    [pos    |-> [i \in 0..Len(path) |-> IF i = 0 THEN 0 ELSE Undef],
     numPos |-> 1,
     p      |-> 0,
     ret    |-> "run"]

\* a plausible slip: the anchor tests the first frontier element
MatchDollarFirst(path, st) ==
    [st EXCEPT !.ret = IF st.pos[0] = Len(path) THEN "true" ELSE "false"]

\* the `$` branch: return pos[numPos - 1] === pathLen
MatchDollar(path, st) ==
    [st EXCEPT !.ret = IF st.pos[st.numPos - 1] = Len(path)
                       THEN "true" ELSE "false"]

\* the `*` branch: numPos = pathLen - pos[0] + 1; pos[i] = pos[i-1] + 1
RECURSIVE StarFill(_, _, _)
StarFill(pos, numPos, i) ==
    IF i < numPos
    THEN StarFill([pos EXCEPT ![i] = pos[i - 1] + 1], numPos, i + 1)
    ELSE pos

\* a plausible slip: the wildcard refills a frontier of pathLen + 1
\* positions whatever its first element is
MatchStarWholePath(path, st) ==
    LET numPos == Len(path) + 1
    IN [st EXCEPT !.numPos = numPos,
                  !.pos    = StarFill(st.pos, numPos, 1),
                  !.p      = st.p + 1]

MatchStar(path, st) ==
    LET numPos == Len(path) - st.pos[0] + 1
    IN [st EXCEPT !.numPos = numPos,
                  !.pos    = StarFill(st.pos, numPos, 1),
                  !.p      = st.p + 1]

\* the literal branch: in-place compaction of the frontier
RECURSIVE LiteralLoop(_, _, _, _, _, _)
LiteralLoop(path, pat, pos, numPos, i, newNumPos) ==
    IF i < numPos
    THEN IF /\ pos[i] # Undef
            /\ pos[i] < Len(path)
            /\ path[pos[i] + 1] = pat
         THEN LiteralLoop(path, pat, [pos EXCEPT ![newNumPos] = pos[i] + 1],
                          numPos, i + 1, newNumPos + 1)
         ELSE LiteralLoop(path, pat, pos, numPos, i + 1, newNumPos)
    ELSE [pos |-> pos, newNumPos |-> newNumPos]

\* a plausible slip: the literal branch does not advance in the pattern
MatchLiteralNoAdvance(path, pat, st) ==
    LET r == LiteralLoop(path, pat, st.pos, st.numPos, 0, 0)
    IN IF r.newNumPos = 0
       THEN [st EXCEPT !.pos = r.pos, !.ret = "false"]
       ELSE [st EXCEPT !.pos = r.pos, !.numPos = r.newNumPos]

MatchLiteral(path, pat, st) ==
    LET r == LiteralLoop(path, pat, st.pos, st.numPos, 0, 0)
    IN IF r.newNumPos = 0
       THEN [st EXCEPT !.pos = r.pos, !.ret = "false"]
       ELSE [st EXCEPT !.pos = r.pos, !.numPos = r.newNumPos, !.p = st.p + 1]

\* one iteration of the loop over the pattern (p < pattern.length)
MatchStep(path, pattern, st) ==
    LET pat == pattern[st.p + 1]
    IN IF pat = "$" /\ st.p = Len(pattern) - 1
       THEN MatchDollar(path, st)
       ELSE IF pat = "*"
            THEN MatchStar(path, st)
            ELSE MatchLiteral(path, pat, st)

\* the number of frontier steps of one iteration of the loop over the
\* pattern: one read for the final `$`, the passes of the fill loop for
\* `*`, the passes of the compaction loop for a literal
FrontierSteps(path, pattern, st) ==
    LET pat == pattern[st.p + 1]
    IN IF pat = "$" /\ st.p = Len(pattern) - 1
       THEN 1
       ELSE IF pat = "*"
            THEN IF Len(path) - st.pos[0] + 1 > 1
                 THEN Len(path) - st.pos[0] ELSE 0
            ELSE st.numPos

\* the loop exit: pattern fully consumed, return true
MatchExit(pattern, st) ==
    IF st.ret = "run" /\ st.p >= Len(pattern)
    THEN [st EXCEPT !.ret = "true"]
    ELSE st

RECURSIVE MatchRun(_, _, _)
MatchRun(path, pattern, st) ==
    IF st.ret # "run" THEN st.ret = "true"
    ELSE IF st.p >= Len(pattern) THEN TRUE
    ELSE MatchRun(path, pattern, MatchStep(path, pattern, st))

matches(path, pattern) == MatchRun(path, pattern, MatchStart(path))

(***************************************************************************)
(* url-utils.ts: getPathParamsQuery(url).                                  *)
(***************************************************************************)
\* first 0-based index i >= from with url[i] in chars, -1 when there is none
IndexOfAny(url, chars, from) ==
    LET idx == {i \in from..(Len(url) - 1) : url[i + 1] \in chars}
    IN IF idx = {} THEN -1 ELSE CHOOSE i \in idx : \A j \in idx : i <= j

\* url.indexOf(needle, from)
indexOf(url, needle, from) ==
    LET idx == {i \in from..(Len(url) - Len(needle)) :
                   SubSeq(url, i + 1, i + Len(needle)) = needle}
    IN IF idx = {} THEN -1 ELSE CHOOSE i \in idx : \A j \in idx : i <= j

\* a plausible slip: no slash is prepended to a path starting with ? or ;
getPathParamsQueryNoSlash(url) ==
    LET searchStart == IF Len(url) >= 2 /\ url[1] = "/" /\ url[2] = "/"
                       THEN 2 ELSE 0
        earlyPath   == IndexOfAny(url, {"/", "?", ";"}, searchStart)
        protoFound  == indexOf(url, <<":", "/", "/">>, searchStart)
        protoKept   == IF earlyPath # -1 /\ earlyPath < protoFound
                       THEN -1 ELSE protoFound
        protocolEnd == IF protoKept = -1 THEN searchStart ELSE protoKept + 3
        pathStart   == IndexOfAny(url, {"/", "?", ";"}, protocolEnd)
        hashPos     == indexOf(url, <<"#">>, searchStart)
        pathEnd     == IF hashPos = -1 THEN Len(url) ELSE hashPos
    IN IF pathStart # -1
       THEN IF hashPos # -1 /\ hashPos < pathStart
            THEN <<"/">>
            ELSE IF url[pathStart + 1] # "/"
                 THEN Slice(url, pathStart, pathEnd)
                 ELSE Slice(url, pathStart, pathEnd)
       ELSE <<"/">>

getPathParamsQuery(url) ==
    LET searchStart == IF Len(url) >= 2 /\ url[1] = "/" /\ url[2] = "/"
                       THEN 2 ELSE 0
        earlyPath   == IndexOfAny(url, {"/", "?", ";"}, searchStart)
        protoFound  == indexOf(url, <<":", "/", "/">>, searchStart)
        protoKept   == IF earlyPath # -1 /\ earlyPath < protoFound
                       THEN -1 ELSE protoFound
        protocolEnd == IF protoKept = -1 THEN searchStart ELSE protoKept + 3
        pathStart   == IndexOfAny(url, {"/", "?", ";"}, protocolEnd)
        hashPos     == indexOf(url, <<"#">>, searchStart)
        pathEnd     == IF hashPos = -1 THEN Len(url) ELSE hashPos
    IN IF pathStart # -1
       THEN IF hashPos # -1 /\ hashPos < pathStart
            THEN <<"/">>
            ELSE IF url[pathStart + 1] # "/"
                 THEN <<"/">> \o Slice(url, pathStart, pathEnd)
                 ELSE Slice(url, pathStart, pathEnd)
       ELSE <<"/">>

(***************************************************************************)
(* match-strategy.ts: LongestMatchRobotsMatchStrategy.                     *)
(***************************************************************************)
matchAllow(path, pattern) ==
    IF matches(path, pattern) THEN Len(pattern) ELSE K_NO_MATCH_PRIORITY

matchDisallow(path, pattern) ==
    IF matches(path, pattern) THEN Len(pattern) ELSE K_NO_MATCH_PRIORITY

(***************************************************************************)
(* matcher.ts: class Match and class RobotsMatcher.                        *)
(* A RobotsMatcher object is a record of its fields.                       *)
(***************************************************************************)
\* new Match(): priority = K_NO_MATCH_PRIORITY, line = 0 (also Match.clear)
NewMatch == [priority |-> K_NO_MATCH_PRIORITY, line |-> 0]

\* Match.set(priority, line)
MatchSet(priority, line) == [priority |-> priority, line |-> line]

\* a plausible slip: on equal priorities the first argument wins
higherPriorityMatchOnTie(a, b) == IF a.priority >= b.priority THEN a ELSE b

\* Match.higherPriorityMatch(a, b)
higherPriorityMatch(a, b) == IF a.priority > b.priority THEN a ELSE b

\* the state of a RobotsMatcher after its constructor
NewRobotsMatcher ==
    [allow                     |-> [global |-> NewMatch, specific |-> NewMatch],
     disallowMatch             |-> [global |-> NewMatch, specific |-> NewMatch],
     seenGlobalAgent           |-> FALSE,
     seenSpecificAgent         |-> FALSE,
     everSeenSpecificAgentFlag |-> FALSE,
     seenSeparator             |-> FALSE,
     path                      |-> <<>>,
     userAgents                |-> <<>>]

IsAgentChar(ch) == ch \in LowerLetters \cup UpperLetters \cup {"-", "_"}

\* extractUserAgent: the maximal leading run of [a-zA-Z_-]
extractUserAgent(userAgent) ==
    LET bad == {i \in 1..Len(userAgent) : ~IsAgentChar(userAgent[i])}
        end == IF bad = {} THEN Len(userAgent)
               ELSE (CHOOSE i \in bad : \A j \in bad : i <= j) - 1
    IN SubSeq(userAgent, 1, end)

\* a plausible slip: any value that starts with `*` is global
IsGlobalAgentValueAnyStar(userAgent) ==
    /\ Len(userAgent) >= 1
    /\ userAgent[1] = "*"

\* the test of both handleUserAgent methods for the global agent:
\* `*` alone, or `*` followed by a white-space character
IsGlobalAgentValue(userAgent) ==
    /\ Len(userAgent) >= 1
    /\ userAgent[1] = "*"
    /\ (Len(userAgent) = 1 \/ userAgent[2] \in WhiteSpace)

\* RobotsMatcher.initUserAgentsAndPath throws "Path must start with /"
PathUsageError(path) == ~startsWith(path, <<"/">>)

\* RobotsMatcher.initUserAgentsAndPath when it does not throw
initUserAgentsAndPath(m, userAgents, path) ==
    [m EXCEPT !.path = path, !.userAgents = userAgents]

\* a plausible slip: rules are accepted outside a group as well
seenAnyAgentAlways(m) == TRUE

seenAnyAgent(m) == m.seenGlobalAgent \/ m.seenSpecificAgent

\* a plausible slip: the start hook forgets everSeenSpecificAgentFlag
RobotsMatcher_handleRobotsStartKeepsEverSeen(m) ==
    [m EXCEPT !.allow = [global |-> NewMatch, specific |-> NewMatch],
              !.disallowMatch = [global |-> NewMatch, specific |-> NewMatch],
              !.seenGlobalAgent = FALSE,
              !.seenSpecificAgent = FALSE,
              !.seenSeparator = FALSE]

RobotsMatcher_handleRobotsStart(m) ==
    [m EXCEPT !.allow = [global |-> NewMatch, specific |-> NewMatch],
              !.disallowMatch = [global |-> NewMatch, specific |-> NewMatch],
              !.seenGlobalAgent = FALSE,
              !.seenSpecificAgent = FALSE,
              !.everSeenSpecificAgentFlag = FALSE,
              !.seenSeparator = FALSE]

RobotsMatcher_handleRobotsEnd(m) == m

\* a plausible slip: a User-agent line never closes the group
RobotsMatcher_closeGroupNever(m) == m

\* handleUserAgent, first part: close the group after a separator
RobotsMatcher_closeGroup(m) ==
    IF m.seenSeparator
    THEN [m EXCEPT !.seenSpecificAgent = FALSE,
                   !.seenGlobalAgent = FALSE,
                   !.seenSeparator = FALSE]
    ELSE m

\* handleUserAgent, second part: apply the value of the line
RobotsMatcher_applyAgent(m, userAgent) ==
    IF IsGlobalAgentValue(userAgent)
    THEN [m EXCEPT !.seenGlobalAgent = TRUE]
    ELSE LET extracted == extractUserAgent(userAgent)
         IN IF \E i \in 1..Len(m.userAgents) :
                   toLowerCase(extracted) = toLowerCase(m.userAgents[i])
            THEN [m EXCEPT !.everSeenSpecificAgentFlag = TRUE,
                           !.seenSpecificAgent = TRUE]
            ELSE m

RobotsMatcher_handleUserAgent(m, lineNum, userAgent) ==
    RobotsMatcher_applyAgent(RobotsMatcher_closeGroup(m), userAgent)

\* a plausible slip: the last matching rule wins
UpdateMatchLast(old, priority, lineNum) == MatchSet(priority, lineNum)

\* the update of one candidate: replaced only by a strictly greater priority
UpdateMatch(old, priority, lineNum) ==
    IF old.priority < priority THEN MatchSet(priority, lineNum) ELSE old

\* the directory pattern derived from an Allow value whose last path
\* segment starts with /index.htm; <<>> stands for "no derived pattern"
IndexHtm == <<"/", "i", "n", "d", "e", "x", ".", "h", "t", "m">>

HasDirectoryPattern(value) ==
    LET slashPos == lastIndexOf(value, "/")
    IN /\ slashPos # -1
       /\ startsWith(Slice(value, slashPos, Len(value)), IndexHtm)

\* a plausible slip: the derived pattern lacks the end anchor
DirectoryPatternNoAnchor(value) ==
    Slice(value, 0, lastIndexOf(value, "/") + 1)

DirectoryPattern(value) ==
    Slice(value, 0, lastIndexOf(value, "/") + 1) \o <<"$">>

RECURSIVE RobotsMatcher_handleAllow(_, _, _)
RobotsMatcher_handleAllow(m, lineNum, value) ==
    IF ~seenAnyAgent(m) THEN m
    ELSE LET m1 == [m EXCEPT !.seenSeparator = TRUE]
             priority == matchAllow(m.path, value)
         IN IF priority >= 0
            THEN IF m1.seenSpecificAgent
                 THEN [m1 EXCEPT !.allow.specific =
                           UpdateMatch(m1.allow.specific, priority, lineNum)]
                 ELSE [m1 EXCEPT !.allow.global =
                           UpdateMatch(m1.allow.global, priority, lineNum)]
            ELSE IF HasDirectoryPattern(value)
                 THEN RobotsMatcher_handleAllow(m1, lineNum,
                                                DirectoryPattern(value))
                 ELSE m1

RobotsMatcher_handleDisallow(m, lineNum, value) ==
    IF ~seenAnyAgent(m) THEN m
    ELSE LET m1 == [m EXCEPT !.seenSeparator = TRUE]
             priority == matchDisallow(m.path, value)
         IN IF priority >= 0
            THEN IF m1.seenSpecificAgent
                 THEN [m1 EXCEPT !.disallowMatch.specific =
                           UpdateMatch(m1.disallowMatch.specific, priority, lineNum)]
                 ELSE [m1 EXCEPT !.disallowMatch.global =
                           UpdateMatch(m1.disallowMatch.global, priority, lineNum)]
            ELSE m1

RobotsMatcher_handleSitemap(m, lineNum, value) == m

\* a plausible slip: an unknown line counts as a separator
RobotsMatcher_handleUnknownActionAsRule(m, lineNum, action, value) ==
    [m EXCEPT !.seenSeparator = TRUE]

RobotsMatcher_handleUnknownAction(m, lineNum, action, value) == m

RobotsMatcher_reportLineMetadata(m, lineNum, metadata) == m

\* a plausible slip: the global candidates are consulted although a
\* requested agent was named
disallowForgetsSeen(m) ==
    IF m.allow.specific.priority > 0 \/ m.disallowMatch.specific.priority > 0
    THEN m.disallowMatch.specific.priority > m.allow.specific.priority
    ELSE IF m.disallowMatch.global.priority > 0 \/ m.allow.global.priority > 0
         THEN m.disallowMatch.global.priority > m.allow.global.priority
         ELSE FALSE

\* RobotsMatcher.disallow()
disallow(m) ==
    IF m.allow.specific.priority > 0 \/ m.disallowMatch.specific.priority > 0
    THEN m.disallowMatch.specific.priority > m.allow.specific.priority
    ELSE IF m.everSeenSpecificAgentFlag
         THEN FALSE
         ELSE IF m.disallowMatch.global.priority > 0
                 \/ m.allow.global.priority > 0
              THEN m.disallowMatch.global.priority > m.allow.global.priority
              ELSE FALSE

\* RobotsMatcher.matchingLine()
matchingLine(m) ==
    IF m.everSeenSpecificAgentFlag
    THEN higherPriorityMatch(m.disallowMatch.specific, m.allow.specific).line
    ELSE higherPriorityMatch(m.disallowMatch.global, m.allow.global).line

(***************************************************************************)
(* parsed-robots.ts: RulesCollectorHandler.                                *)
(* A rule is [pattern, lineNumber, isAllow]; a group is                    *)
(* [agents, rules, isGlobal]; NoGroup stands for currentGroup = null.      *)
(***************************************************************************)
NoGroup == [none |-> TRUE]

NewGroup == [agents |-> {}, rules |-> <<>>, isGlobal |-> FALSE]

\* the state of a RulesCollectorHandler after its constructor
NewRulesCollectorHandler ==
    [globalRules   |-> <<>>,
     agentGroups   |-> <<>>,
     currentGroup  |-> NoGroup,
     seenSeparator |-> FALSE]

RulesCollectorHandler_handleRobotsStart(c) == NewRulesCollectorHandler

finalizeCurrentGroup(c) ==
    IF c.currentGroup # NoGroup /\ Len(c.currentGroup.rules) > 0
    THEN [c EXCEPT !.agentGroups = Append(c.agentGroups, c.currentGroup)]
    ELSE c

RulesCollectorHandler_handleRobotsEnd(c) == finalizeCurrentGroup(c)

RulesCollectorHandler_handleUserAgent(c, lineNum, userAgent) ==
    LET c1 == IF c.seenSeparator
              THEN [finalizeCurrentGroup(c) EXCEPT !.currentGroup = NoGroup,
                                                   !.seenSeparator = FALSE]
              ELSE c
        c2 == IF c1.currentGroup = NoGroup
              THEN [c1 EXCEPT !.currentGroup = NewGroup]
              ELSE c1
    IN IF IsGlobalAgentValue(userAgent)
       THEN [c2 EXCEPT !.currentGroup.isGlobal = TRUE]
       ELSE LET extracted == extractUserAgent(userAgent)
            IN IF Len(extracted) > 0
               THEN [c2 EXCEPT !.currentGroup.agents =
                                   @ \cup {toLowerCase(extracted)}]
               ELSE c2

addRule(c, lineNum, pattern, isAllow) ==
    IF c.currentGroup = NoGroup THEN c
    ELSE LET rule == [pattern |-> pattern, lineNumber |-> lineNum,
                      isAllow |-> isAllow]
             c1 == [c EXCEPT !.seenSeparator = TRUE,
                             !.currentGroup.rules = Append(@, rule)]
         IN IF c1.currentGroup.isGlobal
            THEN [c1 EXCEPT !.globalRules = Append(@, rule)]
            ELSE c1

RulesCollectorHandler_handleAllow(c, lineNum, value) ==
    IF Len(value) = 0 THEN c
    ELSE LET c1 == addRule(c, lineNum, value, TRUE)
         IN IF HasDirectoryPattern(value)
            THEN addRule(c1, lineNum, DirectoryPattern(value), TRUE)
            ELSE c1

\* a plausible slip: an empty Disallow is stored as a rule
RulesCollectorHandler_handleDisallowStoresEmpty(c, lineNum, value) ==
    addRule(c, lineNum, value, FALSE)

RulesCollectorHandler_handleDisallow(c, lineNum, value) ==
    IF Len(value) = 0 THEN c
    ELSE addRule(c, lineNum, value, FALSE)

RulesCollectorHandler_handleSitemap(c, lineNum, value) == c

RulesCollectorHandler_handleUnknownAction(c, lineNum, action, value) == c

RulesCollectorHandler_reportLineMetadata(c, lineNum, metadata) == c

(***************************************************************************)
(* parsed-robots.ts: ParsedRobots.                                         *)
(* A ParsedRobots object is [globalRules, agentRulesMap, explicitAgents];  *)
(* agentRulesMap is a function whose domain is the set of its keys.        *)
(***************************************************************************)
NotParsed == [built |-> FALSE]

\* the loops of ParsedRobots.parse over handler.agentGroups
RECURSIVE BuildAgentRulesMap(_, _, _)
BuildAgentRulesMap(agentGroups, i, map) ==
    IF i > Len(agentGroups) THEN map
    ELSE LET group == agentGroups[i]
             keys == DOMAIN map \cup group.agents
             next == [agent \in keys |->
                        IF agent \in group.agents
                        THEN (IF agent \in DOMAIN map THEN map[agent] ELSE <<>>)
                             \o group.rules
                        ELSE map[agent]]
         IN BuildAgentRulesMap(agentGroups, i + 1, next)

\* ParsedRobots.parse, after the handler has been driven over the text
ParsedRobots_parse(handler) ==
    LET map == BuildAgentRulesMap(handler.agentGroups, 1, <<>>)
    IN [built          |-> TRUE,
        globalRules    |-> handler.globalRules,
        agentRulesMap  |-> map,
        explicitAgents |-> DOMAIN map]

\* the choice of the rule list in ParsedRobots.checkUrls
RulesFor(parsed, userAgent) ==
    LET lowerAgent == toLowerCase(extractUserAgent(userAgent))
        hasSpecificRules == lowerAgent \in DOMAIN parsed.agentRulesMap
    IN IF hasSpecificRules
       THEN parsed.agentRulesMap[lowerAgent]
       ELSE parsed.globalRules

\* the loop of checkSingleUrl over the rules
RECURSIVE BestOfRules(_, _, _, _)
BestOfRules(path, rules, i, best) ==
    IF i > Len(rules) THEN best
    ELSE LET rule == rules[i]
             priority == Len(rule.pattern)
             hit == [priority |-> priority, line |-> rule.lineNumber,
                     pattern |-> rule.pattern]
             next == IF matches(path, rule.pattern)
                     THEN IF rule.isAllow
                          THEN IF priority > best.allow.priority
                               THEN [best EXCEPT !.allow = hit] ELSE best
                          ELSE IF priority > best.disallow.priority
                               THEN [best EXCEPT !.disallow = hit] ELSE best
                     ELSE best
         IN BestOfRules(path, rules, i + 1, next)

NoBest == [priority |-> K_NO_MATCH_PRIORITY, line |-> 0, pattern |-> <<>>]

\* a plausible slip: a tie denies
VerdictOfBestStrict(best) == best.disallow.priority < best.allow.priority

\* const allowed = bestDisallowPriority <= bestAllowPriority
VerdictOfBest(best) == best.disallow.priority <= best.allow.priority

checkSingleUrl(url, rules) ==
    LET path == getPathParamsQuery(url)
        best == BestOfRules(path, rules, 1, [allow |-> NoBest, disallow |-> NoBest])
        allowed == VerdictOfBest(best)
        win == IF best.allow.priority > best.disallow.priority
               THEN [b |-> best.allow, t |-> "allow"]
               ELSE IF best.disallow.priority > best.allow.priority
                    THEN [b |-> best.disallow, t |-> "disallow"]
                    ELSE IF best.allow.priority >= 0
                         THEN [b |-> best.allow, t |-> "allow"]
                         ELSE [b |-> [line |-> 0, pattern |-> <<>>], t |-> "none"]
    IN [url             |-> url,
        allowed         |-> allowed,
        matchingLine    |-> win.b.line,
        matchedPattern  |-> win.b.pattern,
        matchedRuleType |-> win.t,
        bestAllowPriority    |-> best.allow.priority,
        bestDisallowPriority |-> best.disallow.priority]

\* no call has been made on the ParsedRobots object yet
NoEvaluation == [op |-> "none"]

\* ParsedRobots.checkUrl(userAgent, url)
checkUrl(parsed, userAgent, url) == checkSingleUrl(url, RulesFor(parsed, userAgent))

(***************************************************************************)
(* The public methods of a built ParsedRobots object, as the object after  *)
(* the call (self) and the value returned (result).                        *)
(***************************************************************************)
\* a plausible slip: the rule list chosen for an agent without rules of its
\* own is remembered in the map
ParsedRobots_checkUrlsCachesRules(self, userAgent, urls) ==
    LET lowerAgent == toLowerCase(extractUserAgent(userAgent))
        rules == RulesFor(self, userAgent)
        keys == DOMAIN self.agentRulesMap \cup {lowerAgent}
    IN [self   |-> [self EXCEPT !.agentRulesMap =
                       [agent \in keys |->
                           IF agent = lowerAgent THEN rules
                           ELSE self.agentRulesMap[agent]]],
        result |-> [i \in 1..Len(urls) |-> checkSingleUrl(urls[i], rules)]]

\* checkUrls(userAgent, urls): urls.map((url) => checkSingleUrl(url, rules))
ParsedRobots_checkUrls(self, userAgent, urls) ==
    LET rules == RulesFor(self, userAgent)
    IN [self   |-> self,
        result |-> [i \in 1..Len(urls) |-> checkSingleUrl(urls[i], rules)]]

\* checkUrl(userAgent, url): this.checkUrls(userAgent, [url])[0]
ParsedRobots_checkUrl(self, userAgent, url) ==
    LET call == ParsedRobots_checkUrls(self, userAgent, <<url>>)
    IN [self |-> call.self, result |-> call.result[1]]

\* hasSpecificAgent(userAgent)
ParsedRobots_hasSpecificAgent(self, userAgent) ==
    LET lowerAgent == toLowerCase(extractUserAgent(userAgent))
    IN [self |-> self, result |-> lowerAgent \in self.explicitAgents]

\* getExplicitAgents(): Array.from(this.explicitAgents), a new array
ParsedRobots_getExplicitAgents(self) ==
    [self |-> self, result |-> self.explicitAgents]

(***************************************************************************)
(* The parser (parser.ts, parsed-key.ts, url-utils.ts).                    *)
(*                                                                         *)
(* A character is a one-character string; the three code units of the      *)
(* byte order mark, which have no ASCII spelling, are written "xEF", "xBB"  *)
(* and "xBF".  charCodeAt gives the code unit of a character.              *)
(***************************************************************************)
K_MAX_LINE_LEN == 2083 * 8

\* variant: a mark of two bytes
UTF8_BOMTwoBytes == <<239, 187>>

UTF8_BOM == <<239, 187, 191>>

K_HEX_DIGITS == <<"0","1","2","3","4","5","6","7","8","9",
                  "A","B","C","D","E","F">>

Digits == {"0","1","2","3","4","5","6","7","8","9"}

\* String.prototype.charCodeAt on one character
charCodeAt(c) ==
    CASE c = "xEF" -> 239
      [] c = "xBB" -> 187
      [] c = "xBF" -> 191
      [] c = "\t" -> 9
      [] c = "\n" -> 10
      [] c = "\f" -> 12
      [] c = "\r" -> 13
      [] c = " " -> 32
      [] c = "#" -> 35
      [] c = "$" -> 36
      [] c = "%" -> 37
      [] c = "*" -> 42
      [] c = "-" -> 45
      [] c = "." -> 46
      [] c = "/" -> 47
      [] c \in Digits -> 47 + (CHOOSE i \in 1..10 : K_HEX_DIGITS[i] = c)
      [] c = ":" -> 58
      [] c \in UpperLetters -> 64 + (CHOOSE i \in 1..26 : UpperSeq[i] = c)
      [] c \in LowerLetters -> 96 + (CHOOSE i \in 1..26 : LowerSeq[i] = c)

\* String.prototype.toUpperCase on one character
UpperChar(c) ==
    IF c \in LowerLetters
    THEN UpperSeq[CHOOSE i \in 1..26 : LowerSeq[i] = c]
    ELSE c

\* the index of the first element of a non-empty set of indices
FirstOf(idx) == CHOOSE i \in idx : \A j \in idx : i <= j

\* s.indexOf(c) for a character c: 0-based, -1 when absent
indexOfChar(s, c) ==
    LET idx == {i \in 1..Len(s) : s[i] = c}
    IN IF idx = {} THEN -1 ELSE FirstOf(idx) - 1

\* variant: nothing is trimmed
trimNothing(s) == s

\* String.prototype.trim
trim(s) ==
    LET lead  == CHOOSE k \in 0..Len(s) :
                    /\ \A i \in 1..k : s[i] \in WhiteSpace
                    /\ k = Len(s) \/ s[k + 1] \notin WhiteSpace
        rest  == SubSeq(s, lead + 1, Len(s))
        trail == CHOOSE k \in 0..Len(rest) :
                    /\ \A i \in 1..k : rest[Len(rest) + 1 - i] \in WhiteSpace
                    /\ k = Len(rest) \/ rest[Len(rest) - k] \notin WhiteSpace
    IN SubSeq(rest, 1, Len(rest) - trail)

\* s.split(/[ \t]+/): the pieces between the maximal runs of spaces and tabs
RECURSIVE splitSpaceTab(_)
splitSpaceTab(s) ==
    LET idx == {i \in 1..Len(s) : s[i] \in {" ", "\t"}}
    IN IF idx = {} THEN <<s>>
       ELSE LET first == FirstOf(idx)
                run   == CHOOSE k \in 1..(Len(s) - first + 1) :
                            /\ \A i \in 0..(k - 1) : s[first + i] \in {" ", "\t"}
                            /\ first + k > Len(s)
                               \/ s[first + k] \notin {" ", "\t"}
            IN <<SubSeq(s, 1, first - 1)>>
               \o splitSpaceTab(SubSeq(s, first + run, Len(s)))

(***************************************************************************)
(* Strings that can be as long as a line (the text, the line buffer, the   *)
(* values handed to the handler) are stored run-length encoded, as a       *)
(* sequence of runs [c |-> character, n |-> repetitions]: Chars gives the  *)
(* string a run-length value stands for and Packed the run-length value of *)
(* a string.                                                               *)
(***************************************************************************)
RECURSIVE RunLen(_)
RunLen(r) == IF r = <<>> THEN 0 ELSE r[1].n + RunLen(Tail(r))

RECURSIVE Chars(_)
Chars(r) ==
    IF r = <<>> THEN <<>>
    ELSE [i \in 1..r[1].n |-> r[1].c] \o Chars(Tail(r))

RECURSIVE PackedFrom(_, _, _)
PackedFrom(s, starts, i) ==
    IF i > Len(s) THEN <<>>
    ELSE LET later == {j \in starts : j > i}
             next  == IF later = {} THEN Len(s) + 1 ELSE FirstOf(later)
         IN <<[c |-> s[i], n |-> next - i]>> \o PackedFrom(s, starts, next)

Packed(s) ==
    PackedFrom(s, {i \in 2..Len(s) : s[i] # s[i - 1]}, 1)

\* robotsBody[i] for a 0-based index i < RunLen(r)
RECURSIVE CharAt(_, _)
CharAt(r, i) == IF i < r[1].n THEN r[1].c ELSE CharAt(Tail(r), i - r[1].n)

\* lineBuffer += char
Push(r, ch) ==
    IF r # <<>> /\ r[Len(r)].c = ch
    THEN [r EXCEPT ![Len(r)].n = @ + 1]
    ELSE Append(r, [c |-> ch, n |-> 1])

(***************************************************************************)
(* types.ts: LineMetadata and KeyType.                                     *)
(***************************************************************************)
\* a plausible slip: a new metadata record starts with the typo flag set
createLineMetadataTypoSet ==
    [isEmpty |-> FALSE, hasComment |-> FALSE, isComment |-> FALSE,
     hasDirective |-> FALSE, isAcceptableTypo |-> TRUE,
     isLineTooLong |-> FALSE, isMissingColonSeparator |-> FALSE]

createLineMetadata ==
    [isEmpty |-> FALSE, hasComment |-> FALSE, isComment |-> FALSE,
     hasDirective |-> FALSE, isAcceptableTypo |-> FALSE,
     isLineTooLong |-> FALSE, isMissingColonSeparator |-> FALSE]

KeyTypes == {"USER_AGENT", "SITEMAP", "ALLOW", "DISALLOW", "UNKNOWN"}

(***************************************************************************)
(* parsed-key.ts: ParsedRobotsKey.                                         *)
(***************************************************************************)
K_ALLOW_FREQUENT_TYPOS == TRUE

startsWithIgnoreCase(key, prefix) ==
    startsWith(toLowerCase(key), toLowerCase(prefix))

keyIsUserAgent(key) ==
    \/ startsWithIgnoreCase(key, <<"u","s","e","r","-","a","g","e","n","t">>)
    \/ /\ K_ALLOW_FREQUENT_TYPOS
       /\ \/ startsWithIgnoreCase(key, <<"u","s","e","r","a","g","e","n","t">>)
          \/ startsWithIgnoreCase(key,
                                  <<"u","s","e","r"," ","a","g","e","n","t">>)

isUserAgentTypo(key) ==
    /\ K_ALLOW_FREQUENT_TYPOS
    /\ \/ startsWithIgnoreCase(key, <<"u","s","e","r","a","g","e","n","t">>)
       \/ startsWithIgnoreCase(key, <<"u","s","e","r"," ","a","g","e","n","t">>)

keyIsAllow(key) == startsWithIgnoreCase(key, <<"a","l","l","o","w">>)

\* variant: only the canonical spelling is a Disallow key
keyIsDisallowNoTypos(key) ==
    startsWithIgnoreCase(key, <<"d","i","s","a","l","l","o","w">>)

keyIsDisallow(key) ==
    \/ startsWithIgnoreCase(key, <<"d","i","s","a","l","l","o","w">>)
    \/ /\ K_ALLOW_FREQUENT_TYPOS
       /\ \/ startsWithIgnoreCase(key, <<"d","i","s","s","a","l","l","o","w">>)
          \/ startsWithIgnoreCase(key, <<"d","i","s","s","a","l","o","w">>)
          \/ startsWithIgnoreCase(key, <<"d","i","s","a","l","o","w">>)
          \/ startsWithIgnoreCase(key, <<"d","i","a","s","l","l","o","w">>)
          \/ startsWithIgnoreCase(key, <<"d","i","s","a","l","l","a","w">>)

isDisallowTypo(key) ==
    /\ K_ALLOW_FREQUENT_TYPOS
    /\ \/ startsWithIgnoreCase(key, <<"d","i","s","s","a","l","l","o","w">>)
       \/ startsWithIgnoreCase(key, <<"d","i","s","s","a","l","o","w">>)
       \/ startsWithIgnoreCase(key, <<"d","i","s","a","l","o","w">>)
       \/ startsWithIgnoreCase(key, <<"d","i","a","s","l","l","o","w">>)
       \/ startsWithIgnoreCase(key, <<"d","i","s","a","l","l","a","w">>)

keyIsSitemap(key) ==
    \/ startsWithIgnoreCase(key, <<"s","i","t","e","m","a","p">>)
    \/ /\ K_ALLOW_FREQUENT_TYPOS
       /\ startsWithIgnoreCase(key, <<"s","i","t","e","-","m","a","p">>)

isSitemapTypo(key) ==
    /\ K_ALLOW_FREQUENT_TYPOS
    /\ startsWithIgnoreCase(key, <<"s","i","t","e","-","m","a","p">>)

\* the unknownText of a key that is not UNKNOWN
Undefined == <<"undefined">>

ParsedRobotsKey_parse(key) ==
    IF keyIsUserAgent(key)
    THEN [type |-> "USER_AGENT", isAcceptableTypo |-> isUserAgentTypo(key),
          unknownText |-> Undefined]
    ELSE IF keyIsAllow(key)
    THEN [type |-> "ALLOW", isAcceptableTypo |-> FALSE,
          unknownText |-> Undefined]
    ELSE IF keyIsDisallow(key)
    THEN [type |-> "DISALLOW", isAcceptableTypo |-> isDisallowTypo(key),
          unknownText |-> Undefined]
    ELSE IF keyIsSitemap(key)
    THEN [type |-> "SITEMAP", isAcceptableTypo |-> isSitemapTypo(key),
          unknownText |-> Undefined]
    ELSE [type |-> "UNKNOWN", isAcceptableTypo |-> FALSE,
          unknownText |-> key]

(***************************************************************************)
(* url-utils.ts: maybeEscapePattern.                                       *)
(***************************************************************************)
isHexDigit(ch) ==
    ch \in Digits \cup {"a","b","c","d","e","f","A","B","C","D","E","F"}

isLower(ch) == ch \in LowerLetters

\* the test of branch (a) at the 0-based index i: a % and two hex digits
IsEscapeAt(src, i) ==
    /\ src[i + 1] = "%"
    /\ i + 2 < Len(src)
    /\ isHexDigit(src[i + 2])
    /\ isHexDigit(src[i + 3])

\* new TextEncoder().encode(ch) for a code unit above 127 and below 2048
encode(code) == <<192 + (code \div 64), 128 + (code % 64)>>

\* "%" and the two hexadecimal digits of a byte
HexOfByte(byte) ==
    <<"%", K_HEX_DIGITS[((byte \div 16) % 16) + 1], K_HEX_DIGITS[(byte % 16) + 1]>>

\* The first pass.  The two characters the loop skips after a % sequence
\* are hexadecimal digits, which neither start a % sequence nor have the
\* high bit set, so every index can be tested on its own.
NeedsEscape(src) ==
    \/ \E i \in 0..(Len(src) - 1) : charCodeAt(src[i + 1]) > 127
    \/ \E i \in 0..(Len(src) - 1) :
          /\ IsEscapeAt(src, i)
          /\ isLower(src[i + 2]) \/ isLower(src[i + 3])

\* the second pass, from the 0-based index i
RECURSIVE EscapeFrom(_, _)
EscapeFrom(src, i) ==
    IF i >= Len(src) THEN <<>>
    ELSE IF IsEscapeAt(src, i)
    THEN <<"%", UpperChar(src[i + 2]), UpperChar(src[i + 3])>>
         \o EscapeFrom(src, i + 3)
    ELSE IF charCodeAt(src[i + 1]) > 127
    THEN LET charBytes == encode(charCodeAt(src[i + 1]))
         IN HexOfByte(charBytes[1]) \o HexOfByte(charBytes[2])
            \o EscapeFrom(src, i + 1)
    ELSE <<src[i + 1]>> \o EscapeFrom(src, i + 1)

maybeEscapePattern(src) ==
    IF ~NeedsEscape(src)
    THEN [escaped |-> src, wasEscaped |-> FALSE]
    ELSE [escaped |-> EscapeFrom(src, 0), wasEscaped |-> TRUE]

(***************************************************************************)
(* parser.ts: RobotsTxtParser.  The handler given to the parser records    *)
(* every callback, in order, in the log "events"; "emitted" records the    *)
(* arguments of every parseAndEmitLine call.                               *)
(***************************************************************************)
Event(kind, lineNum, action, value, metadata) ==
    [kind |-> kind, lineNum |-> lineNum, action |-> Packed(action),
     value |-> Packed(value), metadata |-> metadata]

\* the callbacks without arguments
Hook(kind) == Event(kind, 0, <<>>, <<>>, createLineMetadata)

needEscapeValueForKey(keyType) ==
    CASE keyType \in {"USER_AGENT", "SITEMAP"} -> FALSE
      [] OTHER -> TRUE


\* a plausible slip: only a line that starts with # is a comment line
getKeyAndValueFromBareComment(line) ==
    LET commentPos    == indexOfChar(line, "#")
        hasComment    == commentPos # -1
        processedLine == trim(IF hasComment THEN Slice(line, 0, commentPos)
                                            ELSE line)
        metadata      == [createLineMetadata EXCEPT !.hasComment = hasComment]
        sepPos        == indexOfChar(processedLine, ":")
        parts         == splitSpaceTab(processedLine)
        key           == trim(Slice(processedLine, 0, sepPos))
        value         == trim(Slice(processedLine, sepPos + 1,
                                    Len(processedLine)))
        none(m)       == [key |-> <<>>, value |-> <<>>, metadata |-> m]
    IN IF Len(processedLine) = 0
       THEN IF hasComment
            THEN none([metadata EXCEPT !.isComment = (commentPos = 0)])
            ELSE none([metadata EXCEPT !.isEmpty = TRUE])
       ELSE IF sepPos = -1
       THEN IF Len(parts) = 2
            THEN [key |-> parts[1], value |-> parts[2],
                  metadata |-> [metadata EXCEPT
                                   !.isMissingColonSeparator = TRUE,
                                   !.hasDirective = TRUE]]
            ELSE none(metadata)
       ELSE IF Len(key) > 0
       THEN [key |-> key, value |-> value,
             metadata |-> [metadata EXCEPT !.hasDirective = TRUE]]
       ELSE none(metadata)

getKeyAndValueFrom(line) ==
    LET commentPos    == indexOfChar(line, "#")
        hasComment    == commentPos # -1
        processedLine == trim(IF hasComment THEN Slice(line, 0, commentPos)
                                            ELSE line)
        metadata      == [createLineMetadata EXCEPT !.hasComment = hasComment]
        sepPos        == indexOfChar(processedLine, ":")
        parts         == splitSpaceTab(processedLine)
        key           == trim(Slice(processedLine, 0, sepPos))
        value         == trim(Slice(processedLine, sepPos + 1,
                                    Len(processedLine)))
        none(m)       == [key |-> <<>>, value |-> <<>>, metadata |-> m]
    IN IF Len(processedLine) = 0
       THEN IF hasComment
            THEN none([metadata EXCEPT !.isComment = TRUE])
            ELSE none([metadata EXCEPT !.isEmpty = TRUE])
       ELSE IF sepPos = -1
       THEN IF Len(parts) = 2
            THEN [key |-> parts[1], value |-> parts[2],
                  metadata |-> [metadata EXCEPT
                                   !.isMissingColonSeparator = TRUE,
                                   !.hasDirective = TRUE]]
            ELSE none(metadata)
       ELSE IF Len(key) > 0
       THEN [key |-> key, value |-> value,
             metadata |-> [metadata EXCEPT !.hasDirective = TRUE]]
       ELSE none(metadata)

\* the handler callback chosen by the switch, as the event it records
emitKeyValueToHandler(lineNum, keyType, value, unknownText) ==
    CASE keyType = "USER_AGENT" ->
           Event("UserAgent", lineNum, <<>>, value, createLineMetadata)
      [] keyType = "ALLOW" ->
           Event("Allow", lineNum, <<>>, value, createLineMetadata)
      [] keyType = "DISALLOW" ->
           Event("Disallow", lineNum, <<>>, value, createLineMetadata)
      [] keyType = "SITEMAP" ->
           Event("Sitemap", lineNum, <<>>, value, createLineMetadata)
      [] keyType = "UNKNOWN" ->
           Event("Unknown", lineNum,
                 IF unknownText = Undefined \/ unknownText = <<>>
                 THEN <<>> ELSE unknownText,
                 value, createLineMetadata)

\* variant: the metadata is reported before the directive
parseAndEmitLineMetadataFirst(lineNum, line, lineTooLong) ==
    LET kv        == getKeyAndValueFrom(line)
        metadata  == [kv.metadata EXCEPT !.isLineTooLong = lineTooLong]
        keyResult == ParsedRobotsKey_parse(kv.key)
    IN IF ~metadata.hasDirective
       THEN <<Event("LineMetadata", lineNum, <<>>, <<>>, metadata)>>
       ELSE << Event("LineMetadata", lineNum, <<>>, <<>>, metadata),
               emitKeyValueToHandler(lineNum, keyResult.type, kv.value,
                                     keyResult.unknownText) >>

\* the callbacks of one parseAndEmitLine call, in order
parseAndEmitLine(lineNum, line, lineTooLong) ==
    LET kv        == getKeyAndValueFrom(line)
        metadata  == [kv.metadata EXCEPT !.isLineTooLong = lineTooLong]
        keyResult == ParsedRobotsKey_parse(kv.key)
        reported  == [metadata EXCEPT
                         !.isAcceptableTypo = keyResult.isAcceptableTypo]
    IN IF ~metadata.hasDirective
       THEN <<Event("LineMetadata", lineNum, <<>>, <<>>, metadata)>>
       ELSE << emitKeyValueToHandler(
                  lineNum, keyResult.type,
                  IF needEscapeValueForKey(keyResult.type)
                  THEN maybeEscapePattern(kv.value).escaped
                  ELSE kv.value,
                  keyResult.unknownText),
               Event("LineMetadata", lineNum, <<>>, <<>>, reported) >>

\* new RobotsTxtParser(robotsBody, handler), before parse() is called
NewRobotsTxtParser(robotsBody) ==
    [pc |-> "new", robotsBody |-> robotsBody, i |-> 0, lineBuffer |-> <<>>,
     lineNum |-> 0, bomPos |-> 0, lastWasCarriageReturn |-> FALSE,
     lineTooLong |-> FALSE, events |-> <<>>, emitted |-> <<>>]

\* no text is being parsed
NoParser == NewRobotsTxtParser(<<>>)

\* parse(): the initialisations and the start hook
RobotsTxtParser_parseStart(p) ==
    [p EXCEPT !.pc = "loop", !.i = 0, !.lineBuffer = <<>>, !.lineNum = 0,
              !.bomPos = 0, !.lastWasCarriageReturn = FALSE,
              !.lineTooLong = FALSE,
              !.events = Append(@, Hook("RobotsStart"))]

\* lineNum++; parseAndEmitLine(lineNum, lineBuffer, lineTooLong)
EmitLine(p) ==
    [p EXCEPT !.lineNum = @ + 1,
              !.events = @ \o parseAndEmitLine(p.lineNum + 1,
                                               Chars(p.lineBuffer),
                                               p.lineTooLong),
              !.emitted = Append(@, [lineNum |-> p.lineNum + 1,
                                     line |-> p.lineBuffer,
                                     lineTooLong |-> p.lineTooLong])]

\* variant: a character of the mark is skipped wherever it stands
IsBomCharAnywhere(p, ch) == \E k \in 1..Len(UTF8_BOM) : ch = UTF8_BOM[k]

\* the test that skips a character of the byte order mark
IsBomChar(p, ch) ==
    p.bomPos < Len(UTF8_BOM) /\ ch = UTF8_BOM[p.bomPos + 1]

\* variant: the LF after a CR ends a line of its own
isCRLFContinuationNever(p, ch) == FALSE

isCRLFContinuation(p, ch) ==
    RunLen(p.lineBuffer) = 0 /\ p.lastWasCarriageReturn /\ ch = 10

\* variant: the flag of an oversized line is not reset
LineEndKeepsFlag(p, ch) ==
    LET q == IF ~isCRLFContinuation(p, ch) THEN EmitLine(p) ELSE p
    IN [q EXCEPT !.lineBuffer = <<>>, !.lastWasCarriageReturn = (ch = 13)]

\* the branch of the loop body for LF and CR
LineEnd(p, ch) ==
    LET q == IF ~isCRLFContinuation(p, ch)
             THEN [EmitLine(p) EXCEPT !.lineTooLong = FALSE]
             ELSE p
    IN [q EXCEPT !.lineBuffer = <<>>, !.lastWasCarriageReturn = (ch = 13)]

\* variant: the buffer takes K_MAX_LINE_LEN characters
LineCharWholeBudget(p, char) ==
    LET q == IF RunLen(p.lineBuffer) < K_MAX_LINE_LEN
             THEN [p EXCEPT !.lineBuffer = Push(@, char)]
             ELSE [p EXCEPT !.lineTooLong = TRUE]
    IN [q EXCEPT !.lastWasCarriageReturn = FALSE]

\* the branch of the loop body for any other character
LineChar(p, char) ==
    LET q == IF RunLen(p.lineBuffer) < K_MAX_LINE_LEN - 1
             THEN [p EXCEPT !.lineBuffer = Push(@, char)]
             ELSE [p EXCEPT !.lineTooLong = TRUE]
    IN [q EXCEPT !.lastWasCarriageReturn = FALSE]

\* parse(): one iteration of the loop over the characters
RobotsTxtParser_parseChar(p) ==
    LET char == CharAt(p.robotsBody, p.i)
        ch   == charCodeAt(char)
        next == [p EXCEPT !.i = @ + 1]
    IN IF IsBomChar(p, ch)
       THEN [next EXCEPT !.bomPos = @ + 1]
       ELSE LET q == [next EXCEPT !.bomPos = Len(UTF8_BOM)]
            IN IF ch = 10 \/ ch = 13 THEN LineEnd(q, ch)
                                     ELSE LineChar(q, char)

\* variant: the end hook is not called
RobotsTxtParser_parseEndNoHook(p) == [EmitLine(p) EXCEPT !.pc = "done"]

\* parse(): the final line and the end hook
RobotsTxtParser_parseEnd(p) ==
    [EmitLine(p) EXCEPT !.pc = "done",
                        !.events = Append(@, Hook("RobotsEnd"))]

\* parseRobotsTxt(robotsBody, handler) run to its end
RECURSIVE ParseLoop(_)
ParseLoop(p) ==
    IF p.i < RunLen(p.robotsBody)
    THEN ParseLoop(RobotsTxtParser_parseChar(p))
    ELSE RobotsTxtParser_parseEnd(p)

parseRobotsTxt(robotsBody) ==
    ParseLoop(RobotsTxtParser_parseStart(NewRobotsTxtParser(Packed(robotsBody))))

(***************************************************************************)
(* State.                                                                  *)
(***************************************************************************)
VARIABLES
    mPath,        \* matches(): the path argument
    mPattern,     \* matches(): the pattern argument
    mState,       \* matches(): pos[], numPos, p and the outcome of the call
    phase,        \* "idle", "parsing" (between start and end hook), "done",
                  \* or "error" (allowedByRobots threw the usage error)
    queryUrl,     \* the URL of the query
    matcher,      \* the RobotsMatcher object
    collector,    \* the RulesCollectorHandler object
    parsedRobots, \* the ParsedRobots object built at the end of the parse
    allowed,      \* the value returned by allowedByRobots ("none" before)
    parserLine,   \* RobotsTxtParser.parse: lineNum, the last logical line
    lines,        \* the directive lines of the text read so far, in order
    calls,        \* the number of allowedByRobots calls made on the matcher
    parser,       \* the RobotsTxtParser object, its handler's log included
    evaluation    \* the last call made on the built ParsedRobots object

matchVars == <<mPath, mPattern, mState>>
resolverVars == <<phase, queryUrl, matcher, collector, parsedRobots, allowed,
                  parserLine, lines, calls, evaluation>>
vars == <<mPath, mPattern, mState, phase, queryUrl, matcher, collector,
          parsedRobots, allowed, parserLine, lines, calls, parser,
          evaluation>>

(***************************************************************************)
(* The pattern matcher as a state machine: one step per loop iteration.    *)
(***************************************************************************)
PathAlphabet == {"/", "a", "$"}
PatternAlphabet == {"/", "a", "*", "$"}

\* no call of matches() in progress
MatchIdle == [pos |-> [i \in 0..0 |-> 0], numPos |-> 1, p |-> 0, ret |-> "idle"]

InitMatch ==
    /\ mPath \in StringsUpTo(PathAlphabet, MaxPathLen)
    /\ mPattern \in StringsUpTo(PatternAlphabet, MaxPatLen)
    /\ mState = MatchStart(mPath)
    /\ phase = "idle"
    /\ queryUrl = <<>>
    /\ matcher = NewRobotsMatcher
    /\ collector = NewRulesCollectorHandler
    /\ parsedRobots = NotParsed
    /\ evaluation = NoEvaluation
    /\ allowed = "none"
    /\ parserLine = 0
    /\ lines = <<>>
    /\ calls = 0
    /\ parser = NoParser

IterDollar ==
    /\ mState.ret = "run"
    /\ mState.p < Len(mPattern)
    /\ mPattern[mState.p + 1] = "$" /\ mState.p = Len(mPattern) - 1
    /\ mState' = MatchStep(mPath, mPattern, mState)
    /\ UNCHANGED <<mPath, mPattern, resolverVars, parser>>

IterStar ==
    /\ mState.ret = "run"
    /\ mState.p < Len(mPattern)
    /\ mPattern[mState.p + 1] = "*"
    /\ mState' = MatchStep(mPath, mPattern, mState)
    /\ UNCHANGED <<mPath, mPattern, resolverVars, parser>>

IterLiteral ==
    /\ mState.ret = "run"
    /\ mState.p < Len(mPattern)
    /\ mPattern[mState.p + 1] # "*"
    /\ ~(mPattern[mState.p + 1] = "$" /\ mState.p = Len(mPattern) - 1)
    /\ mState' = MatchStep(mPath, mPattern, mState)
    /\ UNCHANGED <<mPath, mPattern, resolverVars, parser>>

IterExit ==
    /\ mState.ret = "run"
    /\ mState.p >= Len(mPattern)
    /\ mState' = MatchExit(mPattern, mState)
    /\ UNCHANGED <<mPath, mPattern, resolverVars, parser>>

NextMatch == IterDollar \/ IterStar \/ IterLiteral \/ IterExit

SpecMatch == InitMatch /\ [][NextMatch]_vars

(***************************************************************************)
(* The resolvers driven by the parser.  parseRobotsTxt calls the start     *)
(* hook, then for every logical line at most one directive callback        *)
(* followed by reportLineMetadata (parseAndEmitLine), then the end hook.   *)
(* The same text is parsed into a RobotsMatcher (allowedByRobots) and into *)
(* a RulesCollectorHandler (ParsedRobots.parse): the parser is             *)
(* deterministic, so both receive the same callbacks in the same order and *)
(* one step of the model delivers a line to both.                          *)
(***************************************************************************)
\* the values of the User-agent lines of the texts explored
UserAgentValues ==
    { <<"*">>, <<"*", " ", "a">>, <<"A", "/", "1">>, <<"b">> }

\* the (escaped) values of the Allow and Disallow lines of the texts explored
RuleValues ==
    { <<>>, <<"/", "a">>,
      <<"/", "a", "/", "i", "n", "d", "e", "x", ".", "h", "t", "m">> }

\* the queries explored: requested agents and URL
Queries ==
    { [userAgents |-> << <<"a">> >>, url |-> <<"/", "a", "/">>],
      [userAgents |-> << <<"B">> >>, url |-> <<"x", "/", "a">>] }

NoMetadata == [hasDirective |-> FALSE]
DirectiveMetadata == [hasDirective |-> TRUE]

Init ==
    /\ mPath = <<>>
    /\ mPattern = <<>>
    /\ mState = MatchIdle
    /\ phase = "idle"
    /\ queryUrl = <<>>
    /\ matcher = NewRobotsMatcher
    /\ collector = NewRulesCollectorHandler
    /\ parsedRobots = NotParsed
    /\ evaluation = NoEvaluation
    /\ allowed = "none"
    /\ parserLine = 0
    /\ lines = <<>>
    /\ calls = 0
    /\ parser = NoParser

Directive(kind, line, value) == [kind |-> kind, line |-> line, value |-> value]

\* allowedByRobots / ParsedRobots.parse up to and including the start hook
StartQuery(queries) ==
    /\ phase = "idle"
    /\ \E q \in queries :
         /\ queryUrl' = q.url
         /\ IF PathUsageError(getPathParamsQuery(q.url))
            THEN matcher' = matcher /\ phase' = "error"
            ELSE /\ matcher' = RobotsMatcher_handleRobotsStart(
                                  initUserAgentsAndPath(
                                      matcher, q.userAgents,
                                      getPathParamsQuery(q.url)))
                 /\ phase' = "parsing"
    /\ collector' = RulesCollectorHandler_handleRobotsStart(collector)
    /\ calls' = calls + 1
    /\ UNCHANGED <<parsedRobots, allowed, parserLine, lines, matchVars, parser,
                   evaluation>>

\* parseAndEmitLine for a User-agent line
DeliverUserAgent(values, max) ==
    /\ phase = "parsing" /\ parserLine < max
    /\ \E value \in values :
         /\ matcher' = RobotsMatcher_reportLineMetadata(
                RobotsMatcher_handleUserAgent(matcher, parserLine + 1, value),
                parserLine + 1, DirectiveMetadata)
         /\ collector' = RulesCollectorHandler_reportLineMetadata(
                RulesCollectorHandler_handleUserAgent(collector, parserLine + 1, value),
                parserLine + 1, DirectiveMetadata)
         /\ lines' = Append(lines, Directive("user-agent", parserLine + 1, value))
    /\ parserLine' = parserLine + 1
    /\ UNCHANGED <<phase, queryUrl, parsedRobots, allowed, calls, matchVars, parser,
                   evaluation>>

\* parseAndEmitLine for an Allow line
DeliverAllow(values, max) ==
    /\ phase = "parsing" /\ parserLine < max
    /\ \E value \in values :
         /\ matcher' = RobotsMatcher_reportLineMetadata(
                RobotsMatcher_handleAllow(matcher, parserLine + 1, value),
                parserLine + 1, DirectiveMetadata)
         /\ collector' = RulesCollectorHandler_reportLineMetadata(
                RulesCollectorHandler_handleAllow(collector, parserLine + 1, value),
                parserLine + 1, DirectiveMetadata)
         /\ lines' = Append(lines, Directive("allow", parserLine + 1, value))
    /\ parserLine' = parserLine + 1
    /\ UNCHANGED <<phase, queryUrl, parsedRobots, allowed, calls, matchVars, parser,
                   evaluation>>

\* parseAndEmitLine for a Disallow line
DeliverDisallow(values, max) ==
    /\ phase = "parsing" /\ parserLine < max
    /\ \E value \in values :
         /\ matcher' = RobotsMatcher_reportLineMetadata(
                RobotsMatcher_handleDisallow(matcher, parserLine + 1, value),
                parserLine + 1, DirectiveMetadata)
         /\ collector' = RulesCollectorHandler_reportLineMetadata(
                RulesCollectorHandler_handleDisallow(collector, parserLine + 1, value),
                parserLine + 1, DirectiveMetadata)
         /\ lines' = Append(lines, Directive("disallow", parserLine + 1, value))
    /\ parserLine' = parserLine + 1
    /\ UNCHANGED <<phase, queryUrl, parsedRobots, allowed, calls, matchVars, parser,
                   evaluation>>

\* parseAndEmitLine for a Sitemap line
LineSitemap ==
    /\ phase = "parsing" /\ parserLine < MaxLines
    /\ LET value == <<"s">>
       IN /\ matcher' = RobotsMatcher_reportLineMetadata(
                RobotsMatcher_handleSitemap(matcher, parserLine + 1, value),
                parserLine + 1, DirectiveMetadata)
          /\ collector' = RulesCollectorHandler_reportLineMetadata(
                RulesCollectorHandler_handleSitemap(collector, parserLine + 1, value),
                parserLine + 1, DirectiveMetadata)
          /\ lines' = Append(lines, Directive("sitemap", parserLine + 1, value))
    /\ parserLine' = parserLine + 1
    /\ UNCHANGED <<phase, queryUrl, parsedRobots, allowed, calls, matchVars, parser,
                   evaluation>>

\* parseAndEmitLine for a line with an unrecognised key
LineUnknown ==
    /\ phase = "parsing" /\ parserLine < MaxLines
    /\ LET value == <<"/", "a">>
           action == <<"x">>
       IN /\ matcher' = RobotsMatcher_reportLineMetadata(
                RobotsMatcher_handleUnknownAction(matcher, parserLine + 1, action, value),
                parserLine + 1, DirectiveMetadata)
          /\ collector' = RulesCollectorHandler_reportLineMetadata(
                RulesCollectorHandler_handleUnknownAction(collector, parserLine + 1, action, value),
                parserLine + 1, DirectiveMetadata)
          /\ lines' = Append(lines, Directive("unknown", parserLine + 1, value))
    /\ parserLine' = parserLine + 1
    /\ UNCHANGED <<phase, queryUrl, parsedRobots, allowed, calls, matchVars, parser,
                   evaluation>>

\* parseAndEmitLine for a line without directive: reportLineMetadata only
LineNoDirective ==
    /\ phase = "parsing" /\ parserLine < MaxLines
    /\ matcher' = RobotsMatcher_reportLineMetadata(matcher, parserLine + 1, NoMetadata)
    /\ collector' = RulesCollectorHandler_reportLineMetadata(collector, parserLine + 1, NoMetadata)
    /\ parserLine' = parserLine + 1
    /\ UNCHANGED <<phase, queryUrl, parsedRobots, allowed, lines, calls, matchVars, parser,
                   evaluation>>

\* the end hook, after the final line; allowedByRobots returns
\* !this.disallow() and ParsedRobots.parse builds its maps
ParseEnd ==
    /\ phase = "parsing" /\ parserLine >= 1
    /\ matcher' = RobotsMatcher_handleRobotsEnd(matcher)
    /\ collector' = RulesCollectorHandler_handleRobotsEnd(collector)
    /\ parsedRobots' = ParsedRobots_parse(collector')
    /\ allowed' = ~disallow(matcher')
    /\ phase' = "done"
    /\ UNCHANGED <<queryUrl, parserLine, lines, calls, matchVars, parser,
                   evaluation>>

ParseStart == StartQuery(Queries)
LineUserAgent == DeliverUserAgent(UserAgentValues, MaxLines)
LineAllow == DeliverAllow(RuleValues, MaxLines)
LineDisallow == DeliverDisallow(RuleValues, MaxLines)

Next ==
    \/ ParseStart
    \/ LineUserAgent
    \/ LineAllow
    \/ LineDisallow
    \/ LineSitemap
    \/ LineUnknown
    \/ LineNoDirective
    \/ ParseEnd

Spec == Init /\ [][Next]_vars

(***************************************************************************)
(* The same machine over longer texts with fewer distinct lines.           *)
(***************************************************************************)
LongUserAgentValues == { <<"*">>, <<"A", "/", "1">>, <<"b">> }
LongAllowValues == { <<>> }
LongDisallowValues == { <<>>, <<"/", "a">> }
LongQueries == { [userAgents |-> << <<"a">> >>, url |-> <<"/", "a", "/">>] }

LongParseStart == StartQuery(LongQueries)
LongLineUserAgent == DeliverUserAgent(LongUserAgentValues, MaxLongLines)
LongLineAllow == DeliverAllow(LongAllowValues, MaxLongLines)
LongLineDisallow == DeliverDisallow(LongDisallowValues, MaxLongLines)

NextLong ==
    \/ LongParseStart
    \/ LongLineUserAgent
    \/ LongLineAllow
    \/ LongLineDisallow
    \/ ParseEnd

SpecLong == Init /\ [][NextLong]_vars

(***************************************************************************)
(* The same machine over short texts with more kinds of User-agent value.  *)
(***************************************************************************)
ShortUserAgentValues ==
    { <<"*">>, <<"*", "\t", "a">>, <<"*", "a">>, <<"A", "/", "1">>, <<"b">> }
ShortRuleValues == { <<>>, <<"/">>, <<"/", "a">> }

ShortLineUserAgent == DeliverUserAgent(ShortUserAgentValues, MaxShortLines)
ShortLineAllow == DeliverAllow(ShortRuleValues, MaxShortLines)
ShortLineDisallow == DeliverDisallow(ShortRuleValues, MaxShortLines)

NextShort ==
    \/ ParseStart
    \/ ShortLineUserAgent
    \/ ShortLineAllow
    \/ ShortLineDisallow
    \/ LineNoDirective
    \/ ParseEnd

SpecShort == Init /\ [][NextShort]_vars

(***************************************************************************)
(* Several allowedByRobots calls on one RobotsMatcher object: a later call *)
(* starts from the fields the earlier call left behind.  Each call parses  *)
(* its own text; ParsedRobots.parse builds a new handler for each text.    *)
(***************************************************************************)
ReuseUserAgentValues == { <<"*">>, <<"a">>, <<"b">> }
ReuseRuleValues == { <<"/", "a">> }
ReuseQueries ==
    { [userAgents |-> << <<"a">> >>, url |-> <<"/", "a", "/">>],
      [userAgents |-> << <<"b">> >>, url |-> <<"/", "a", "/">>] }

\* allowedByRobots called again on the same object, up to the start hook
StartAgain(queries) ==
    /\ phase = "done" /\ calls < MaxCalls
    /\ \E q \in queries :
         /\ queryUrl' = q.url
         /\ IF PathUsageError(getPathParamsQuery(q.url))
            THEN matcher' = matcher /\ phase' = "error"
            ELSE /\ matcher' = RobotsMatcher_handleRobotsStart(
                                  initUserAgentsAndPath(
                                      matcher, q.userAgents,
                                      getPathParamsQuery(q.url)))
                 /\ phase' = "parsing"
    /\ collector' = RulesCollectorHandler_handleRobotsStart(NewRulesCollectorHandler)
    /\ parsedRobots' = NotParsed
    /\ allowed' = "none"
    /\ parserLine' = 0
    /\ lines' = <<>>
    /\ calls' = calls + 1
    /\ UNCHANGED <<matchVars, parser,
                   evaluation>>

ReuseParseStart == StartQuery(ReuseQueries)
ReuseParseAgain == StartAgain(ReuseQueries)
ReuseLineUserAgent == DeliverUserAgent(ReuseUserAgentValues, MaxReuseLines)
ReuseLineAllow == DeliverAllow(ReuseRuleValues, MaxReuseLines)
ReuseLineDisallow == DeliverDisallow(ReuseRuleValues, MaxReuseLines)

NextReuse ==
    \/ ReuseParseStart
    \/ ReuseParseAgain
    \/ ReuseLineUserAgent
    \/ ReuseLineAllow
    \/ ReuseLineDisallow
    \/ ParseEnd

SpecReuse == Init /\ [][NextReuse]_vars

(***************************************************************************)
(* Queries with several requested agents and with the empty agent.         *)
(***************************************************************************)
AgentsUserAgentValues == { <<"*">>, <<"a">>, <<"b">>, <<"1">> }
AgentsAllowValues == { <<"/", "a", "/">> }
AgentsDisallowValues == { <<"/", "a">> }
AgentsQueries ==
    { [userAgents |-> << <<"a">>, <<"b">> >>, url |-> <<"/", "a", "/">>],
      [userAgents |-> << <<>> >>, url |-> <<"/", "a", "/">>] }

AgentsParseStart == StartQuery(AgentsQueries)
AgentsLineUserAgent == DeliverUserAgent(AgentsUserAgentValues, MaxAgentsLines)
AgentsLineAllow == DeliverAllow(AgentsAllowValues, MaxAgentsLines)
AgentsLineDisallow == DeliverDisallow(AgentsDisallowValues, MaxAgentsLines)

NextAgents ==
    \/ AgentsParseStart
    \/ AgentsLineUserAgent
    \/ AgentsLineAllow
    \/ AgentsLineDisallow
    \/ ParseEnd

SpecAgents == Init /\ [][NextAgents]_vars

(***************************************************************************)
(* Allow values whose last segment starts with /index.htm, and the paths   *)
(* around their directory.                                                 *)
(***************************************************************************)
IndexHtml == IndexHtm \o <<"l">>

\* the directory prefixes D of the Allow values explored
DirPrefixes == { <<>>, <<"/", "a">>, <<"/", "*">> }

DirUserAgentValues == { <<"*">>, <<"a">> }
DirAllowValues ==
    {D \o suffix : D \in DirPrefixes,
                   suffix \in {IndexHtm, IndexHtml, IndexHtm \o <<"x">>}}
      \cup { <<"/", "a">> }
DirQueries ==
    {[userAgents |-> << <<"a">> >>, url |-> u] :
        u \in { <<"/">>, <<"/", "a", "/">>, <<"/", "*", "/">>,
                <<"/", "a", "/", "a">>, <<"/", "*", "/", "a", "/">>,
                <<"/", "a">> \o IndexHtm }}

DirParseStart == StartQuery(DirQueries)
DirLineUserAgent == DeliverUserAgent(DirUserAgentValues, MaxDirLines)
DirLineAllow == DeliverAllow(DirAllowValues, MaxDirLines)

NextDir ==
    \/ DirParseStart
    \/ DirLineUserAgent
    \/ DirLineAllow
    \/ ParseEnd

SpecDir == Init /\ [][NextDir]_vars

(***************************************************************************)
(* Reference semantics of a pattern, by backtracking over the text of the  *)
(* pattern: `*` stands for any (possibly empty) run of characters, a final *)
(* `$` for the end of the path, every other character for itself; a        *)
(* consumed pattern accepts whatever remains of the path.                  *)
(***************************************************************************)
RECURSIVE GlobMatch(_, _)
GlobMatch(s, pat) ==
    IF pat = <<>> THEN TRUE
    ELSE IF pat = <<"$">> THEN s = <<>>
    ELSE IF Head(pat) = "*"
         THEN \E k \in 0..Len(s) : GlobMatch(SubSeq(s, k + 1, Len(s)), Tail(pat))
         ELSE /\ s # <<>>
              /\ Head(s) = Head(pat)
              /\ GlobMatch(Tail(s), Tail(pat))

\* C7: for every path and pattern, matches(path, pattern) returns true iff
\* the pattern (`*` = any run of characters, final `$` = end of path, every
\* other character, a non-final `$` included, literal) matches a prefix of
\* the path; both the finished loop and the function as a whole agree with
\* the reference semantics.
C7_MatchesIffGlob ==
    /\ (mState.ret \in {"true", "false"})
          => ((mState.ret = "true") <=> GlobMatch(mPath, mPattern))
    /\ (mState.ret # "idle")
          => (matches(mPath, mPattern) <=> GlobMatch(mPath, mPattern))

\* a call that returned true on a pattern with a wildcard, a literal `$`
\* and a final anchor
C7_Witness ==
    /\ mState.ret = "true"
    /\ Len(mPattern) = 3
    /\ mPattern[1] = "*" /\ mPattern[2] = "$" /\ mPattern[3] = "$"
    /\ Len(mPath) = 3

(***************************************************************************)
(* The text read so far, described from its lines alone (not from the      *)
(* resolver's flags): groups, their scope for the query, and the best      *)
(* matching pattern of each scope and kind.                                *)
(***************************************************************************)
IsRuleLine(i) == lines[i].kind \in {"allow", "disallow"}
IsAgentLine(i) == lines[i].kind = "user-agent"

\* the User-agent line at j opens a group: it is the first User-agent line
\* or an Allow/Disallow line lies between the previous one and it
OpensGroup(j) ==
    /\ IsAgentLine(j)
    /\ LET before == {k \in 1..(j - 1) : IsAgentLine(k)}
       IN \/ before = {}
          \/ LET prev == CHOOSE k \in before : \A l \in before : l <= k
             IN \E r \in (prev + 1)..(j - 1) : IsRuleLine(r)

\* the number of the group the line at i belongs to; 0 = before any group
GroupOf(i) == Cardinality({j \in 1..i : OpensGroup(j)})

\* the value names one of the requested agents (ignoring case)
NamesRequestedAgent(value) ==
    /\ ~IsGlobalAgentValue(value)
    /\ \E k \in 1..Len(matcher.userAgents) :
          toLowerCase(extractUserAgent(value)) = toLowerCase(matcher.userAgents[k])

GroupNamesRequested(g) ==
    \E j \in 1..Len(lines) :
        IsAgentLine(j) /\ GroupOf(j) = g /\ NamesRequestedAgent(lines[j].value)

GroupHasStar(g) ==
    \E j \in 1..Len(lines) :
        IsAgentLine(j) /\ GroupOf(j) = g /\ IsGlobalAgentValue(lines[j].value)

ScopeOfGroup(g) ==
    IF g = 0 THEN "none"
    ELSE IF GroupNamesRequested(g) THEN "specific"
    ELSE IF GroupHasStar(g) THEN "global"
    ELSE "none"

\* some User-agent line of the text names a requested agent
TextNamesRequestedAgent ==
    \E j \in 1..Len(lines) : IsAgentLine(j) /\ NamesRequestedAgent(lines[j].value)

\* the patterns a rule line stands for: its value and, for an Allow value
\* whose last segment starts with /index.htm, the directory pattern
PatternsOfLine(i) ==
    IF lines[i].kind = "allow" /\ HasDirectoryPattern(lines[i].value)
    THEN {lines[i].value, DirectoryPattern(lines[i].value)}
    ELSE {lines[i].value}

\* the rule lines of a kind in the groups of a scope
RuleLinesOf(scope, kind) ==
    {i \in 1..Len(lines) : lines[i].kind = kind /\ ScopeOfGroup(GroupOf(i)) = scope}

\* the greatest length of a pattern of that scope and kind that matches the
\* path of the query, -1 when none matches
BestPriority(scope, kind) ==
    LET lens == {Len(pat) : pat \in
                    {q \in UNION {PatternsOfLine(i) : i \in RuleLinesOf(scope, kind)} :
                        GlobMatch(matcher.path, q)}}
    IN IF lens = {} THEN -1
       ELSE CHOOSE n \in lens : \A k \in lens : k <= n

\* the scope that decides the verdict of the query
DecidingScope == IF TextNamesRequestedAgent THEN "specific" ELSE "global"

\* the single requested agent of the query, for the bulk API
QueryAgent == matcher.userAgents[1]

\* ParsedRobots.parse(text).checkUrl(agent, url)
BulkResult == checkUrl(parsedRobots, QueryAgent, queryUrl)

(***************************************************************************)
(* C1                                                                      *)
(***************************************************************************)
\* the verdict the four rules of the claim give for four priorities
ClaimedDeny(sa, sd, seen, ga, gd) ==
    CASE sa > 0 \/ sd > 0 -> sd > sa
      [] ~(sa > 0 \/ sd > 0) /\ seen -> FALSE
      [] ~(sa > 0 \/ sd > 0) /\ ~seen /\ (ga > 0 \/ gd > 0) -> gd > ga
      [] OTHER -> FALSE

\* C1: disallow() is the four-step cascade over the best candidates
\* (specific pair if one is > 0, else allow if a requested agent was named,
\* else the global pair if one is > 0, else allow), and allowedByRobots
\* returns its negation.
C1_VerdictCascade ==
    /\ disallow(matcher) =
          ClaimedDeny(matcher.allow.specific.priority,
                      matcher.disallowMatch.specific.priority,
                      matcher.everSeenSpecificAgentFlag,
                      matcher.allow.global.priority,
                      matcher.disallowMatch.global.priority)
    /\ (phase = "done") => (allowed = ~disallow(matcher))

\* a finished query decided by step (2): the agent was named, no specific
\* candidate is positive, and the global Disallow would have denied
C1_Witness ==
    /\ phase = "done"
    /\ matcher.everSeenSpecificAgentFlag
    /\ matcher.allow.specific.priority <= 0
    /\ matcher.disallowMatch.specific.priority <= 0
    /\ matcher.disallowMatch.global.priority > matcher.allow.global.priority
    /\ allowed = TRUE

(***************************************************************************)
(* C2                                                                      *)
(***************************************************************************)
\* C2: longest match wins: each of the four candidates of RobotsMatcher
\* holds the greatest length of a matching pattern among the rules of its
\* scope and kind over all groups of the text read so far (the derived
\* directory pattern included for Allow), and -1 when none matches.
C2_LongestMatch ==
    (phase # "idle") =>
        /\ matcher.allow.specific.priority = BestPriority("specific", "allow")
        /\ matcher.disallowMatch.specific.priority = BestPriority("specific", "disallow")
        /\ matcher.allow.global.priority = BestPriority("global", "allow")
        /\ matcher.disallowMatch.global.priority = BestPriority("global", "disallow")

\* a finished parse in which a later, shorter matching Allow did not
\* replace the derived directory pattern, and a second group contributed
C2_Witness ==
    /\ phase = "done"
    /\ matcher.allow.specific.priority = 4
    /\ Len(lines) = 4
    /\ lines[2].kind = "allow" /\ Len(lines[2].value) = 12
    /\ lines[3].kind = "allow" /\ Len(lines[3].value) = 2
    /\ lines[4].kind = "user-agent"

(***************************************************************************)
(* C3                                                                      *)
(***************************************************************************)
\* the deciding scope of the text has a matching Allow and a matching
\* Disallow of equal length
TieInDecidingScope ==
    /\ BestPriority(DecidingScope, "allow") >= 0
    /\ BestPriority(DecidingScope, "allow") = BestPriority(DecidingScope, "disallow")

\* C3: ties favour Allow: when the best matching Allow and the best
\* matching Disallow of the deciding scope have equal length, the query is
\* allowed by RobotsMatcher.allowedByRobots and by ParsedRobots.checkUrl.
C3_TieFavoursAllow ==
    (phase = "done" /\ TieInDecidingScope) =>
        /\ allowed = TRUE
        /\ BulkResult.allowed = TRUE

\* the half of C3 that concerns RobotsMatcher alone
C3_TieFavoursAllowMatcher ==
    (phase = "done" /\ TieInDecidingScope) => allowed = TRUE

(***************************************************************************)
(* C4                                                                      *)
(***************************************************************************)
\* the directive lines of the text without the Allow/Disallow lines that
\* belong to groups of global scope
RECURSIVE DropGlobalRules(_)
DropGlobalRules(i) ==
    IF i = 0 THEN <<>>
    ELSE IF IsRuleLine(i) /\ ScopeOfGroup(GroupOf(i)) = "global"
         THEN DropGlobalRules(i - 1)
         ELSE Append(DropGlobalRules(i - 1), lines[i])

\* a fresh RobotsMatcher driven over a sequence of directive lines
RECURSIVE RunMatcher(_, _)
RunMatcher(evs, n) ==
    IF n = 0
    THEN RobotsMatcher_handleRobotsStart(
             initUserAgentsAndPath(NewRobotsMatcher, matcher.userAgents, matcher.path))
    ELSE LET m == RunMatcher(evs, n - 1)
             e == evs[n]
         IN CASE e.kind = "user-agent" -> RobotsMatcher_handleUserAgent(m, e.line, e.value)
              [] e.kind = "allow"      -> RobotsMatcher_handleAllow(m, e.line, e.value)
              [] e.kind = "disallow"   -> RobotsMatcher_handleDisallow(m, e.line, e.value)
              [] e.kind = "sitemap"    -> RobotsMatcher_handleSitemap(m, e.line, e.value)
              [] OTHER -> RobotsMatcher_handleUnknownAction(m, e.line, <<"x">>, e.value)

\* C4: specific agent overrides global: when a User-agent line names a
\* requested agent, the verdict equals the verdict of the same query on
\* the text with every rule of the `*`-only groups removed, so two texts
\* that differ only in such rules (they have the same remainder) agree.
C4_GlobalRulesIrrelevant ==
    (phase = "done" /\ TextNamesRequestedAgent) =>
        LET rest == DropGlobalRules(Len(lines))
        IN allowed = ~disallow(RunMatcher(rest, Len(rest)))

\* a finished query on a text naming the agent in which a rule of a
\* `*`-only group matches the path and would deny
C4_Witness ==
    /\ phase = "done"
    /\ TextNamesRequestedAgent
    /\ BestPriority("global", "disallow") > 0
    /\ BestPriority("global", "disallow") > BestPriority("global", "allow")
    /\ BestPriority("specific", "allow") > 0
    /\ allowed = TRUE

(***************************************************************************)
(* C5                                                                      *)
(***************************************************************************)
\* C5: the bulk and the single-URL API agree on every text, agent and URL.
C5_BulkAgreesWithSingle ==
    (phase = "done") => (BulkResult.allowed = allowed)

(***************************************************************************)
(* C6                                                                      *)
(***************************************************************************)
\* the rule list checkUrl evaluates for the query
BulkRules == RulesFor(parsedRobots, QueryAgent)

\* C6: when a User-agent line names the queried agent, checkUrl uses only
\* rules of that agent's groups (no rule of a `*`-only group), and a URL
\* matched by none of the agent's own rules is allowed, also when the
\* agent's groups hold no rule or only empty-valued rules.
C6_SpecificIgnoresGlobal ==
    (phase = "done" /\ TextNamesRequestedAgent) =>
        /\ \A k \in 1..Len(BulkRules) :
              \E i \in 1..Len(lines) :
                 /\ IsRuleLine(i)
                 /\ lines[i].line = BulkRules[k].lineNumber
                 /\ ScopeOfGroup(GroupOf(i)) = "specific"
        /\ (BestPriority("specific", "disallow") <= 0) => BulkResult.allowed = TRUE

(***************************************************************************)
(* C8                                                                      *)
(***************************************************************************)
\* the step delivers a directive line of the given kinds
StepDelivers(kinds) ==
    /\ Len(lines') = Len(lines) + 1
    /\ lines'[Len(lines')].kind \in kinds

\* an Allow/Disallow line lies between the last User-agent line and the end
\* of the text read so far
RuleSinceLastAgentLine ==
    \E r \in 1..Len(lines) :
        /\ IsRuleLine(r)
        /\ \A k \in (r + 1)..Len(lines) : ~IsAgentLine(k)

\* C8: a User-agent line that follows an Allow/Disallow line of the
\* current group leaves exactly the scope flags its own value sets (the
\* group was closed first); a User-agent line not preceded by such a line
\* keeps the flags of the group and adds its own.
C8_GroupBoundaries ==
    [][ StepDelivers({"user-agent"}) =>
          LET value == lines'[Len(lines')].value
              ownGlobal == IsGlobalAgentValue(value)
              ownSpecific == NamesRequestedAgent(value)
          IN /\ matcher'.seenSeparator = FALSE
             /\ IF RuleSinceLastAgentLine
                THEN /\ matcher'.seenGlobalAgent = ownGlobal
                     /\ matcher'.seenSpecificAgent = ownSpecific
                ELSE /\ matcher'.seenGlobalAgent = (matcher.seenGlobalAgent \/ ownGlobal)
                     /\ matcher'.seenSpecificAgent = (matcher.seenSpecificAgent \/ ownSpecific)
      ]_vars

\* a User-agent line for another agent has closed a group that was specific,
\* after an earlier User-agent line had merged into that group
C8_Witness ==
    /\ Len(lines) = 4
    /\ lines[1].kind = "user-agent" /\ IsGlobalAgentValue(lines[1].value)
    /\ lines[2].kind = "user-agent" /\ NamesRequestedAgent(lines[2].value)
    /\ IsRuleLine(3)
    /\ lines[4].kind = "user-agent"
    /\ ~matcher.seenGlobalAgent /\ ~matcher.seenSpecificAgent
    /\ matcher.everSeenSpecificAgentFlag

(***************************************************************************)
(* C9                                                                      *)
(***************************************************************************)
\* C9: an Allow or Disallow line delivered while neither scope flag is set
\* leaves the four candidates and the separator flag unchanged.
C9_RulesOutsideGroupVoid ==
    [][ (StepDelivers({"allow", "disallow"})
            /\ ~matcher.seenGlobalAgent /\ ~matcher.seenSpecificAgent) =>
          /\ matcher'.allow = matcher.allow
          /\ matcher'.disallowMatch = matcher.disallowMatch
          /\ matcher'.seenSeparator = matcher.seenSeparator
      ]_vars

\* a matching Disallow was delivered in a group naming only another agent,
\* after a global group, and changed nothing
C9_Witness ==
    /\ Len(lines) = 4
    /\ lines[1].kind = "user-agent" /\ IsGlobalAgentValue(lines[1].value)
    /\ lines[2].kind = "allow"
    /\ lines[3].kind = "user-agent" /\ ScopeOfGroup(GroupOf(3)) = "none"
    /\ lines[4].kind = "disallow" /\ GlobMatch(matcher.path, lines[4].value)
    /\ Len(lines[4].value) > 0
    /\ matcher.disallowMatch.global.priority = K_NO_MATCH_PRIORITY
    /\ ~matcher.seenSeparator

(***************************************************************************)
(* C10                                                                     *)
(***************************************************************************)
\* the step delivers a line without directive: reportLineMetadata only
StepReportsOnly == parserLine' = parserLine + 1 /\ lines' = lines

\* C10: Sitemap lines, unknown-directive lines and line-metadata reports
\* leave every field of RobotsMatcher and of RulesCollectorHandler
\* unchanged.
C10_OtherLinesChangeNothing ==
    [][ (StepDelivers({"sitemap", "unknown"}) \/ StepReportsOnly) =>
          /\ matcher' = matcher
          /\ collector' = collector
      ]_vars

\* a Sitemap or unknown line sits between two User-agent lines that still
\* form one group, whose rule was recorded for both of them
C10_Witness ==
    /\ Len(lines) = 4 /\ parserLine = 4
    /\ lines[1].kind = "user-agent" /\ IsGlobalAgentValue(lines[1].value)
    /\ lines[2].kind \in {"sitemap", "unknown"}
    /\ lines[3].kind = "user-agent" /\ NamesRequestedAgent(lines[3].value)
    /\ lines[4].kind = "disallow" /\ Len(lines[4].value) > 0
    /\ matcher.seenGlobalAgent /\ matcher.seenSpecificAgent
    /\ collector.currentGroup.isGlobal
    /\ Cardinality(collector.currentGroup.agents) = 1
    /\ Len(collector.currentGroup.rules) = 1

(***************************************************************************)
(* C11                                                                     *)
(***************************************************************************)
\* an Allow/Disallow line that lies inside a group (a User-agent line comes
\* before it) follows the last User-agent line of the text read so far
RuleOfGroupSinceLastAgentLine ==
    \E r \in 1..Len(lines) :
        /\ IsRuleLine(r)
        /\ \A k \in (r + 1)..Len(lines) : ~IsAgentLine(k)
        /\ \E k \in 1..(r - 1) : IsAgentLine(k)

\* the group a User-agent value opens when it is not merged with anything
GroupOfValueAlone(value) ==
    [agents   |-> IF ~IsGlobalAgentValue(value) /\ Len(extractUserAgent(value)) > 0
                  THEN {toLowerCase(extractUserAgent(value))} ELSE {},
     rules    |-> <<>>,
     isGlobal |-> IsGlobalAgentValue(value)]

\* C11: every Allow or Disallow line inside a group is a separator, also
\* with an empty value: the User-agent line that follows it starts a new
\* group, holding only what its own value marks, in RobotsMatcher (scope
\* flags) and in RulesCollectorHandler (current group).
C11_EveryRuleSeparates ==
    [][ (StepDelivers({"user-agent"}) /\ RuleOfGroupSinceLastAgentLine) =>
          LET value == lines'[Len(lines')].value
          IN /\ matcher'.seenGlobalAgent = IsGlobalAgentValue(value)
             /\ matcher'.seenSpecificAgent = NamesRequestedAgent(value)
             /\ collector'.currentGroup = GroupOfValueAlone(value)
      ]_vars

\* the half of C11 that concerns RobotsMatcher alone
C11_EveryRuleSeparatesMatcher ==
    [][ (StepDelivers({"user-agent"}) /\ RuleOfGroupSinceLastAgentLine) =>
          LET value == lines'[Len(lines')].value
          IN /\ matcher'.seenGlobalAgent = IsGlobalAgentValue(value)
             /\ matcher'.seenSpecificAgent = NamesRequestedAgent(value)
      ]_vars

(***************************************************************************)
(* C12                                                                     *)
(***************************************************************************)
\* the maximal leading run of [A-Za-z_-] characters of a value
RECURSIVE LeadingToken(_)
LeadingToken(value) ==
    IF value = <<>> THEN <<>>
    ELSE IF IsAgentChar(Head(value))
         THEN <<Head(value)>> \o LeadingToken(Tail(value))
         ELSE <<>>

\* `*` alone, or `*` followed by a white-space character and anything
StarOrStarSpace(value) ==
    \/ value = <<"*">>
    \/ (Len(value) >= 2 /\ value[1] = "*" /\ value[2] \in WhiteSpace)

\* the token of the value equals a requested agent, ignoring case
TokenIsRequested(value) ==
    \E k \in 1..Len(matcher.userAgents) :
        toLowerCase(LeadingToken(value)) = toLowerCase(matcher.userAgents[k])

\* C12: a User-agent value marks the group global iff it is `*` alone or
\* `*` followed by white space (what follows is ignored and marks no
\* agent); any other value marks the specific scope, and records that an
\* explicit agent was seen, iff its leading [A-Za-z_-] token equals a
\* requested agent ignoring case.  The flags the line starts from are those
\* of the group it joins (cleared when the line opens a new group).
C12_UserAgentMarking ==
    [][ StepDelivers({"user-agent"}) =>
          LET value == lines'[Len(lines')].value
              keptGlobal == matcher.seenGlobalAgent /\ ~matcher.seenSeparator
              keptSpecific == matcher.seenSpecificAgent /\ ~matcher.seenSeparator
          IN IF StarOrStarSpace(value)
             THEN /\ matcher'.seenGlobalAgent = TRUE
                  /\ matcher'.seenSpecificAgent = keptSpecific
                  /\ matcher'.everSeenSpecificAgentFlag = matcher.everSeenSpecificAgentFlag
             ELSE /\ matcher'.seenGlobalAgent = keptGlobal
                  /\ matcher'.seenSpecificAgent = (keptSpecific \/ TokenIsRequested(value))
                  /\ matcher'.everSeenSpecificAgentFlag =
                        (matcher.everSeenSpecificAgentFlag \/ TokenIsRequested(value))
      ]_vars

\* `*` + tab + the requested agent's name has marked the group global and
\* has not named the agent; a later line with version suffix names it
C12_Witness ==
    /\ Len(lines) = 2
    /\ matcher.userAgents = << <<"a">> >>
    /\ lines[1].kind = "user-agent" /\ lines[1].value = <<"*", "\t", "a">>
    /\ lines[2].kind = "user-agent" /\ lines[2].value = <<"A", "/", "1">>
    /\ matcher.seenGlobalAgent
    /\ matcher.seenSpecificAgent
    /\ matcher.everSeenSpecificAgentFlag

(***************************************************************************)
(* C13                                                                     *)
(***************************************************************************)
\* C13: a Disallow line with an empty value changes no best candidate of
\* RobotsMatcher (neither priority nor line) and adds no rule in
\* RulesCollectorHandler.
C13_EmptyDisallowNoOp ==
    [][ (StepDelivers({"disallow"}) /\ lines'[Len(lines')].value = <<>>) =>
          /\ matcher'.allow = matcher.allow
          /\ matcher'.disallowMatch = matcher.disallowMatch
          /\ collector'.globalRules = collector.globalRules
          /\ collector'.agentGroups = collector.agentGroups
          /\ collector'.currentGroup = collector.currentGroup
      ]_vars

\* the half of C13 that concerns RulesCollectorHandler alone
C13_EmptyDisallowNoOpCollector ==
    [][ (StepDelivers({"disallow"}) /\ lines'[Len(lines')].value = <<>>) =>
          /\ collector'.globalRules = collector.globalRules
          /\ collector'.agentGroups = collector.agentGroups
          /\ collector'.currentGroup = collector.currentGroup
      ]_vars

(***************************************************************************)
(* C14                                                                     *)
(***************************************************************************)
EndsWith(s, suffix) ==
    /\ Len(s) >= Len(suffix)
    /\ SubSeq(s, Len(s) - Len(suffix) + 1, Len(s)) = suffix

\* the value is D + "/index.htm" or D + "/index.html"
EndsInIndex(value) == EndsWith(value, IndexHtm) \/ EndsWith(value, IndexHtml)

\* the D of such a value
DirOf(value) ==
    IF EndsWith(value, IndexHtml)
    THEN SubSeq(value, 1, Len(value) - Len(IndexHtml))
    ELSE SubSeq(value, 1, Len(value) - Len(IndexHtm))

\* the Allow candidate a rule of the current group is recorded in
AllowCandidate(m) == IF m.seenSpecificAgent THEN m.allow.specific ELSE m.allow.global

\* the path goes on after the prefix
ContinuesAfter(path, prefix) ==
    /\ Len(path) > Len(prefix)
    /\ SubSeq(path, 1, Len(prefix)) = prefix

\* the first half of C14 for one Allow step: the path D + "/" is matched
\* through the derived pattern D + "/$" with priority |D| + 2, recorded for
\* that line in RobotsMatcher and stored for it in RulesCollectorHandler
DirectoryMatched(value, line) ==
    LET D == DirOf(value)
        derived == D \o <<"/", "$">>
    IN (matcher.path = D \o <<"/">>) =>
          /\ ~matches(matcher.path, value)
          /\ matchAllow(matcher.path, derived) = Len(D) + 2
          /\ AllowCandidate(matcher').priority >= Len(D) + 2
          /\ (AllowCandidate(matcher).priority < Len(D) + 2)
                => AllowCandidate(matcher') = MatchSet(Len(D) + 2, line)
          /\ \E k \in 1..Len(collector'.currentGroup.rules) :
                collector'.currentGroup.rules[k] =
                    [pattern |-> derived, lineNumber |-> line, isAllow |-> TRUE]
          /\ checkSingleUrl(matcher.path, collector'.currentGroup.rules).bestAllowPriority
                >= Len(D) + 2

\* the second half: the derived pattern does not match a longer path
NothingBelowDirectory(value) ==
    LET D == DirOf(value)
    IN ContinuesAfter(matcher.path, D \o <<"/">>)
          => ~matches(matcher.path, D \o <<"/", "$">>)

\* C14 as stated: for an Allow value D + "/index.htm" or D + "/index.html"
\* in an applicable group, the path D + "/" is matched by that line through
\* the derived pattern D + "/$" with priority |D| + 2, and the derived
\* pattern matches no path that continues after D + "/".
C14_DirectoryImpliesAllowedAnyD ==
    [][ (StepDelivers({"allow"}) /\ EndsInIndex(lines'[Len(lines')].value)
            /\ seenAnyAgent(matcher)) =>
          /\ DirectoryMatched(lines'[Len(lines')].value, lines'[Len(lines')].line)
          /\ NothingBelowDirectory(lines'[Len(lines')].value)
      ]_vars

\* C14 as amended: the same, the second half for a D without `*` (a `*` in
\* D is a wildcard of the derived pattern as well and spans the
\* continuation).
C14_DirectoryImpliesAllowed ==
    [][ (StepDelivers({"allow"}) /\ EndsInIndex(lines'[Len(lines')].value)
            /\ seenAnyAgent(matcher)) =>
          /\ DirectoryMatched(lines'[Len(lines')].value, lines'[Len(lines')].line)
          /\ (\A i \in 1..Len(DirOf(lines'[Len(lines')].value)) :
                 DirOf(lines'[Len(lines')].value)[i] # "*")
                => NothingBelowDirectory(lines'[Len(lines')].value)
      ]_vars

\* Allow: /a/index.html has been delivered in the agent's group for the
\* path /a/ and is recorded with priority 4 for its line by both handlers
C14_Witness ==
    /\ Len(lines) = 2
    /\ lines[1].kind = "user-agent" /\ lines[1].value = <<"a">>
    /\ lines[2].kind = "allow" /\ lines[2].value = <<"/", "a">> \o IndexHtml
    /\ matcher.path = <<"/", "a", "/">>
    /\ matcher.allow.specific = MatchSet(4, 2)
    /\ Len(collector.currentGroup.rules) = 2
    /\ collector.currentGroup.rules[2].pattern = <<"/", "a", "/", "$">>

(***************************************************************************)
(* C15                                                                     *)
(***************************************************************************)
\* C15: an Allow value that does not end in /index.htm or /index.html
\* contributes only its own pattern: a candidate of RobotsMatcher changes
\* only to (length of the value, line), and every rule the line adds in
\* RulesCollectorHandler has the value as pattern.
C15_OnlyIndexValuesDerive ==
    [][ (StepDelivers({"allow"}) /\ ~EndsInIndex(lines'[Len(lines')].value)) =>
          LET value == lines'[Len(lines')].value
              line == lines'[Len(lines')].line
          IN /\ matcher'.disallowMatch = matcher.disallowMatch
             /\ \A scope \in {"global", "specific"} :
                   matcher'.allow[scope] \in
                       {matcher.allow[scope], MatchSet(Len(value), line)}
             /\ IF collector.currentGroup = NoGroup
                THEN collector'.currentGroup = NoGroup
                ELSE \A k \in (Len(collector.currentGroup.rules) + 1)
                                 ..Len(collector'.currentGroup.rules) :
                        collector'.currentGroup.rules[k].pattern = value
      ]_vars

(***************************************************************************)
(* C16                                                                     *)
(***************************************************************************)
\* the text holds no Disallow line with a non-empty value
NoDisallowWithValue ==
    \A i \in 1..Len(lines) : lines[i].kind = "disallow" => lines[i].value = <<>>

\* C16: a text without a Disallow line of non-empty value (empty text,
\* lines without directive, Allow lines, empty Disallow lines) allows the
\* query, in RobotsMatcher.allowedByRobots and in ParsedRobots.checkUrl.
C16_NoDisallowAllowsAll ==
    (phase = "done" /\ NoDisallowWithValue) =>
        /\ allowed = TRUE
        /\ BulkResult.allowed = TRUE

\* a finished query on a text whose only rule is an empty Disallow in the
\* `*` group
C16_Witness ==
    /\ phase = "done"
    /\ Len(lines) = 2
    /\ lines[1].kind = "user-agent" /\ lines[1].value = <<"*">>
    /\ lines[2].kind = "disallow" /\ lines[2].value = <<>>
    /\ allowed = TRUE
    /\ BulkResult.allowed = TRUE

(***************************************************************************)
(* C17                                                                     *)
(***************************************************************************)
\* a fresh RobotsMatcher asked for the given agents and the path of the
\* query, driven over a sequence of directive lines
RECURSIVE RunMatcherFor(_, _, _)
RunMatcherFor(userAgents, evs, n) ==
    IF n = 0
    THEN RobotsMatcher_handleRobotsStart(
             initUserAgentsAndPath(NewRobotsMatcher, userAgents, matcher.path))
    ELSE LET m == RunMatcherFor(userAgents, evs, n - 1)
             e == evs[n]
         IN CASE e.kind = "user-agent" -> RobotsMatcher_handleUserAgent(m, e.line, e.value)
              [] e.kind = "allow"      -> RobotsMatcher_handleAllow(m, e.line, e.value)
              [] e.kind = "disallow"   -> RobotsMatcher_handleDisallow(m, e.line, e.value)
              [] e.kind = "sitemap"    -> RobotsMatcher_handleSitemap(m, e.line, e.value)
              [] OTHER -> RobotsMatcher_handleUnknownAction(m, e.line, <<"x">>, e.value)

\* oneAgentAllowedByRobots(text, agent, url) on a new RobotsMatcher
OneAgentAllowed(agent) ==
    ~disallow(RunMatcherFor(<<agent>>, lines, Len(lines)))

\* C17: allowedByRobots(text, agents, url) is true iff the URL is allowed
\* for at least one member of agents asked alone.
C17_AllowedIffSomeAgentAllowed ==
    (phase = "done") =>
        (allowed = (\E k \in 1..Len(matcher.userAgents) :
                        OneAgentAllowed(matcher.userAgents[k])))

(***************************************************************************)
(* C18                                                                     *)
(***************************************************************************)
\* the text has no global group: no User-agent line is `*` or `*` + space
NoGlobalGroup ==
    \A i \in 1..Len(lines) : IsAgentLine(i) => ~StarOrStarSpace(lines[i].value)

\* C18: for the empty agent string every URL is allowed by every text
\* without a global group, whatever User-agent values and rules it holds.
C18_EmptyAgentAllowed ==
    (phase = "done" /\ matcher.userAgents = << <<>> >> /\ NoGlobalGroup) =>
        allowed = TRUE

(***************************************************************************)
(* C19                                                                     *)
(***************************************************************************)
\* C19: reuse equals fresh: the start hook leaves the four candidates at
\* (-1, 0) and the four flags false whatever the earlier calls left, and
\* every call on a used RobotsMatcher returns the verdict, and leaves the
\* matchingLine() and everSeenSpecificAgent(), of the same call on a new
\* RobotsMatcher.
C19_ReuseEqualsFresh ==
    /\ (phase = "parsing" /\ parserLine = 0) =>
          /\ matcher.allow = [global |-> NewMatch, specific |-> NewMatch]
          /\ matcher.disallowMatch = [global |-> NewMatch, specific |-> NewMatch]
          /\ ~matcher.seenGlobalAgent /\ ~matcher.seenSpecificAgent
          /\ ~matcher.everSeenSpecificAgentFlag /\ ~matcher.seenSeparator
    /\ (phase = "done") =>
          LET fresh == RunMatcherFor(matcher.userAgents, lines, Len(lines))
          IN /\ allowed = ~disallow(fresh)
             /\ matchingLine(matcher) = matchingLine(fresh)
             /\ matcher.everSeenSpecificAgentFlag = fresh.everSeenSpecificAgentFlag

\* the second call on the object has finished: agent b, not named by its
\* text, is denied by the `*` group's rule on line 2
C19_Witness ==
    /\ calls = 2
    /\ phase = "done"
    /\ matcher.userAgents = << <<"b">> >>
    /\ ~matcher.everSeenSpecificAgentFlag
    /\ allowed = FALSE
    /\ matchingLine(matcher) = 2

(***************************************************************************)
(* C20                                                                     *)
(***************************************************************************)
\* the first line of a scope and kind whose pattern matches the path with
\* the greatest length; 0 when none matches
FirstBestLine(scope, kind) ==
    LET best == BestPriority(scope, kind)
        hits == {i \in RuleLinesOf(scope, kind) :
                    \E pat \in PatternsOfLine(i) :
                        GlobMatch(matcher.path, pat) /\ Len(pat) = best}
    IN IF hits = {} THEN 0
       ELSE lines[CHOOSE i \in hits : \A j \in hits : i <= j].line

\* C20: after a parse matchingLine() is the line of the winning candidate
\* of the deciding scope (specific if the text names a requested agent,
\* else global): the Disallow candidate's line iff its priority is strictly
\* greater, otherwise the Allow candidate's line, each being the line of
\* the longest matching rule of its kind in that scope, and 0 when no rule
\* of the scope matches.
C20_Provenance ==
    (phase = "done") =>
        LET a == matcher.allow[DecidingScope]
            d == matcher.disallowMatch[DecidingScope]
        IN /\ matchingLine(matcher) = (IF d.priority > a.priority THEN d.line ELSE a.line)
           /\ a.line = FirstBestLine(DecidingScope, "allow")
           /\ d.line = FirstBestLine(DecidingScope, "disallow")
           /\ (BestPriority(DecidingScope, "allow") = -1
                  /\ BestPriority(DecidingScope, "disallow") = -1)
                 => matchingLine(matcher) = 0

\* a tie of positive length in the agent's group: the Allow on line 3 is
\* reported although the Disallow on line 2 came first
C20_Witness ==
    /\ phase = "done"
    /\ Len(lines) = 3
    /\ lines[1].kind = "user-agent" /\ NamesRequestedAgent(lines[1].value)
    /\ lines[2].kind = "disallow" /\ lines[2].value = <<"/", "a">>
    /\ lines[3].kind = "allow" /\ lines[3].value = <<"/", "a">>
    /\ matcher.disallowMatch.specific = MatchSet(2, 2)
    /\ matchingLine(matcher) = 3

(***************************************************************************)
(* The parser as a state machine: parseRobotsTxt on a text drawn from a    *)
(* bounded set, one step for the start of parse(), one per iteration of    *)
(* its loop and one for the final line and the end hook.                   *)
(***************************************************************************)
\* longest text (after an optional byte order mark) of the parser
\* specification
MaxTextLen == 4

TheBom == <<"xEF", "xBB", "xBF">>

ParseAlphabet == {"xEF", "xBB", "xBF", "\n", "\r", "a", ":"}

\* the texts of the parser specification: with and without a leading mark
ParseTexts ==
    {prefix \o t : prefix \in {<<>>, TheBom},
                   t \in StringsUpTo(ParseAlphabet, MaxTextLen)}

InitParser(texts) ==
    /\ mPath = <<>>
    /\ mPattern = <<>>
    /\ mState = MatchIdle
    /\ phase = "idle"
    /\ queryUrl = <<>>
    /\ matcher = NewRobotsMatcher
    /\ collector = NewRulesCollectorHandler
    /\ parsedRobots = NotParsed
    /\ evaluation = NoEvaluation
    /\ allowed = "none"
    /\ parserLine = 0
    /\ lines = <<>>
    /\ calls = 0
    /\ \E t \in texts : parser = NewRobotsTxtParser(Packed(t))

ParserStart ==
    /\ parser.pc = "new"
    /\ parser' = RobotsTxtParser_parseStart(parser)
    /\ UNCHANGED <<matchVars, resolverVars>>

ParserChar ==
    /\ parser.pc = "loop"
    /\ parser.i < RunLen(parser.robotsBody)
    /\ parser' = RobotsTxtParser_parseChar(parser)
    /\ UNCHANGED <<matchVars, resolverVars>>

ParserEnd ==
    /\ parser.pc = "loop"
    /\ parser.i >= RunLen(parser.robotsBody)
    /\ parser' = RobotsTxtParser_parseEnd(parser)
    /\ UNCHANGED <<matchVars, resolverVars>>

NextParse == ParserStart \/ ParserChar \/ ParserEnd

InitParse == InitParser(ParseTexts)

SpecParse == InitParse /\ [][NextParse]_vars

\* the text given to the parser, as a string
Body == Chars(parser.robotsBody)

\* the parse has returned
ParserDone == parser.pc = "done"

(***************************************************************************)
(* C21.  Parser event order.                                               *)
(***************************************************************************)
DirectiveKinds == {"UserAgent", "Allow", "Disallow", "Sitemap", "Unknown"}

\* the positions of the log holding a reportLineMetadata callback
MetadataPositions ==
    {k \in 1..Len(parser.events) : parser.events[k].kind = "LineMetadata"}

\* C21: handleRobotsStart is the first callback and nothing else is a
\* start; handleRobotsEnd is the last callback of a finished parse and
\* occurs nowhere else; every directive callback follows the start hook or
\* a reportLineMetadata and is immediately followed by a
\* reportLineMetadata with the same line number; the n-th
\* reportLineMetadata carries line number n.
C21_EventOrder ==
    LET E == parser.events
    IN /\ parser.pc # "new" =>
            /\ Len(E) >= 1
            /\ \A k \in 1..Len(E) : E[k].kind = "RobotsStart" <=> k = 1
       /\ \A k \in 1..Len(E) :
            E[k].kind = "RobotsEnd" <=> (ParserDone /\ k = Len(E))
       /\ \A k \in 1..Len(E) :
            E[k].kind \in DirectiveKinds =>
                /\ k > 1
                /\ E[k - 1].kind \in {"RobotsStart", "LineMetadata"}
                /\ k < Len(E)
                /\ E[k + 1].kind = "LineMetadata"
                /\ E[k + 1].lineNum = E[k].lineNum
       /\ \A k \in MetadataPositions :
            E[k].lineNum = Cardinality({j \in MetadataPositions : j <= k})
       /\ ParserDone => E[Len(E)].kind = "RobotsEnd"

\* a finished parse of three lines, the second of which held a directive
C21_Witness ==
    /\ ParserDone
    /\ parser.lineNum = 3
    /\ \E k \in 1..Len(parser.events) :
          /\ parser.events[k].kind \in DirectiveKinds
          /\ parser.events[k].lineNum = 2

(***************************************************************************)
(* Reference reading of a text, stated on the text alone.                  *)
(***************************************************************************)
\* the length of the longest prefix of t that is a prefix of EF BB BF
BomPrefixLen(t) ==
    CHOOSE n \in 0..3 :
        /\ n <= Len(t)
        /\ \A i \in 1..n : t[i] = TheBom[i]
        /\ n = 3 \/ n = Len(t) \/ t[n + 1] # TheBom[n + 1]

\* the positions at which a line terminator of t ends: every LF, and every
\* CR that is not immediately followed by LF
TerminatorEnds(t) ==
    {i \in 1..Len(t) :
        \/ t[i] = "\n"
        \/ t[i] = "\r" /\ ~(i < Len(t) /\ t[i + 1] = "\n")}

\* the text after the last terminator of t
AfterLastTerminator(t) ==
    LET ends == TerminatorEnds(t)
    IN IF ends = {} THEN t
       ELSE SubSeq(t, (CHOOSE i \in ends : \A j \in ends : j <= i) + 1, Len(t))

(***************************************************************************)
(* C22.  Line splitting.                                                   *)
(***************************************************************************)
\* C22: a finished parse has reported exactly k + 1 logical lines, k being
\* the number of line terminators of the text (LF, CR, and CR LF counted
\* as one), and its final line is the text after the last terminator (the
\* whole text, less its byte order mark, when there is no terminator).
C22_LineSplitting ==
    ParserDone =>
        LET k == Cardinality(TerminatorEnds(Body))
        IN /\ parser.lineNum = k + 1
           /\ Cardinality(MetadataPositions) = k + 1
           /\ Len(parser.emitted) = k + 1
           /\ Chars(parser.emitted[k + 1].line) =
                 IF k = 0
                 THEN SubSeq(Body, BomPrefixLen(Body) + 1, Len(Body))
                 ELSE AfterLastTerminator(Body)

\* a finished parse of a text with a CR LF pair that ends in a terminator
C22_Witness ==
    /\ ParserDone
    /\ Len(Body) >= 3
    /\ \E i \in 1..(Len(Body) - 1) : Body[i] = "\r" /\ Body[i + 1] = "\n"
    /\ Body[Len(Body)] \in {"\n", "\r"}
    /\ Body[1] = "a"
    /\ parser.lineNum = 3

\* the logical lines of a text without byte order mark: the pieces between
\* its terminators, the piece after the last one included
RECURSIVE RefLines(_)
RefLines(t) ==
    LET idx == {i \in 1..Len(t) : t[i] \in {"\n", "\r"}}
    IN IF idx = {} THEN <<t>>
       ELSE LET first == FirstOf(idx)
                skip  == IF /\ t[first] = "\r"
                            /\ first < Len(t)
                            /\ t[first + 1] = "\n"
                         THEN 2 ELSE 1
            IN <<SubSeq(t, 1, first - 1)>>
               \o RefLines(SubSeq(t, first + skip, Len(t)))

\* the contents of the lines handed to parseAndEmitLine so far
EmittedLines ==
    [k \in 1..Len(parser.emitted) |-> Chars(parser.emitted[k].line)]

(***************************************************************************)
(* C23.  Byte order mark skipping.                                         *)
(***************************************************************************)
\* C23: the lines of a finished parse are the lines of the text less its
\* longest prefix that is a prefix of EF BB BF: that prefix is no part of
\* line 1 and every later character, EF, BB and BF included, is line
\* content or a terminator.
C23_BomSkipping ==
    ParserDone =>
        EmittedLines =
            RefLines(SubSeq(Body, BomPrefixLen(Body) + 1, Len(Body)))

\* a finished parse that dropped a two-byte mark and kept a later EF as
\* content of a line
C23_Witness ==
    /\ ParserDone
    /\ BomPrefixLen(Body) = 2
    /\ \E k \in 1..Len(EmittedLines) :
          \E i \in 1..Len(EmittedLines[k]) : EmittedLines[k][i] = "xEF"

(***************************************************************************)
(* C24.  Byte order mark round trip.                                       *)
(***************************************************************************)
\* the text starts with the full mark EF BB BF
StartsWithBom == Len(Body) >= 3 /\ SubSeq(Body, 1, 3) = TheBom

\* the text after the first three characters
AfterBom == SubSeq(Body, 4, Len(Body))

\* C24 as claimed: for every text T, the callbacks of the parse of
\* EF BB BF followed by T are the callbacks of the parse of T alone.
C24_BomRoundTripAnyText ==
    (ParserDone /\ StartsWithBom) =>
        parser.events = parseRobotsTxt(AfterBom).events

\* C24 amended: for every text T that does not begin with the byte EF, the
\* callbacks of the parse of EF BB BF followed by T (kinds, values, line
\* numbers and metadata) are the callbacks of the parse of T alone.
C24_BomRoundTrip ==
    (ParserDone /\ StartsWithBom /\ (AfterBom = <<>> \/ AfterBom[1] # "xEF")) =>
        parser.events = parseRobotsTxt(AfterBom).events

\* a finished parse of the mark followed by a text whose second line holds
\* a directive
C24_Witness ==
    /\ ParserDone
    /\ StartsWithBom
    /\ Len(AfterBom) = 4
    /\ AfterBom[1] = "\r"
    /\ \E k \in 1..Len(parser.events) :
          /\ parser.events[k].kind = "Unknown"
          /\ parser.events[k].lineNum = 2

(***************************************************************************)
(* The parser on texts whose first line is about as long as the line       *)
(* buffer.                                                                 *)
(***************************************************************************)
\* how far beyond the capacity of the line buffer the first line can reach
MaxExcess == 2

\* the lengths of the first line: around K_MAX_LINE_LEN - 1
LongLineLengths ==
    (K_MAX_LINE_LEN - 2)..(K_MAX_LINE_LEN - 1 + MaxExcess)

\* how the first line starts: plain content, or an Allow directive
LongHeads == { <<>>, <<"a", "l", "l", "o", "w", ":", "/">> }

\* what follows the first line: nothing, or a terminator and a second line
LongTails == { <<>>, <<"\n", "b", ":">> }

LongLineTexts ==
    {head \o [i \in 1..(n - Len(head)) |-> "a"] \o tail :
        head \in LongHeads, n \in LongLineLengths, tail \in LongTails}

InitLineLen == InitParser(LongLineTexts)

SpecLineLen == InitLineLen /\ [][NextParse]_vars

\* the lines of the text, read on the text alone
TextLines == RefLines(SubSeq(Body, BomPrefixLen(Body) + 1, Len(Body)))

\* the metadata reported for line k
MetadataOf(k) ==
    LET pos == CHOOSE j \in MetadataPositions : parser.events[j].lineNum = k
    IN parser.events[pos].metadata

(***************************************************************************)
(* C25.  The line length budget.                                           *)
(***************************************************************************)
\* the claim for a budget of max characters: a line is flagged iff its
\* content is longer than max, and the content handed on is its first max
\* characters (all of it when it is not longer)
LineBudgetIs(max) ==
    ParserDone =>
        \A k \in 1..Len(parser.emitted) :
            LET raw == TextLines[k]
            IN /\ MetadataOf(k).isLineTooLong = (Len(raw) > max)
               /\ parser.emitted[k].lineTooLong = (Len(raw) > max)
               /\ Chars(parser.emitted[k].line) =
                     SubSeq(raw, 1, IF Len(raw) > max THEN max ELSE Len(raw))

DirectivesOf(k) ==
    SelectSeq(parser.events,
              LAMBDA e : e.kind \in DirectiveKinds /\ e.lineNum = k)

\* the directive callbacks of a line of ordinary length with this content
DirectivesOfLine(k, line) ==
    SelectSeq(parseAndEmitLine(k, line, FALSE),
              LAMBDA e : e.kind \in DirectiveKinds)

\* the line does not fit the line buffer
Oversized(line) == Len(line) > K_MAX_LINE_LEN - 1

\* C26: of an oversized line the characters beyond the capacity of the
\* buffer are dropped up to the next terminator and the retained prefix
\* yields the directive callback and the metadata it yields as a line of
\* its own, the flag isLineTooLong apart; every later line that fits the
\* buffer has the next line numbers and isLineTooLong = FALSE.
C26_OversizedLinesLocal ==
    ParserDone =>
        \A k \in 1..Len(TextLines) :
            Oversized(TextLines[k]) =>
                LET kept == SubSeq(TextLines[k], 1, K_MAX_LINE_LEN - 1)
                IN /\ Chars(parser.emitted[k].line) = kept
                   /\ DirectivesOf(k) = DirectivesOfLine(k, kept)
                   /\ MetadataOf(k) =
                         [getKeyAndValueFrom(kept).metadata EXCEPT
                             !.isLineTooLong = TRUE,
                             !.isAcceptableTypo =
                                 ParsedRobotsKey_parse(
                                     getKeyAndValueFrom(kept).key
                                 ).isAcceptableTypo]
                   /\ \A j \in (k + 1)..Len(TextLines) :
                         ~Oversized(TextLines[j]) =>
                             /\ parser.emitted[j].lineNum = j
                             /\ ~MetadataOf(j).isLineTooLong
                             /\ DirectivesOf(j) =
                                    DirectivesOfLine(j, TextLines[j])

\* a finished parse of an oversized Allow line followed by a second line
C26_Witness ==
    /\ ParserDone
    /\ Len(TextLines) = 2
    /\ Oversized(TextLines[1])
    /\ Len(DirectivesOf(1)) = 1
    /\ DirectivesOf(1)[1].kind = "Allow"
    /\ RunLen(DirectivesOf(1)[1].value) = K_MAX_LINE_LEN - 1 - 6
    /\ Len(DirectivesOf(2)) = 1
    /\ ~MetadataOf(2).isLineTooLong

(***************************************************************************)
(* The parser on texts of one line, for the shape of a line.               *)
(***************************************************************************)
\* longest line of the one-line specification
MaxLineLen == 5

LineAlphabet == {" ", "\t", "#", ":", "a"}

LineTexts == StringsUpTo(LineAlphabet, MaxLineLen)

InitLine == InitParser(LineTexts)

SpecLine == InitLine /\ [][NextParse]_vars

(***************************************************************************)
(* C27.  Key/value split.  The reading of a line is restated here from     *)
(* the claim, on the line alone.                                           *)
(***************************************************************************)
\* the characters before the first # of the line
BeforeComment(l) ==
    LET n == CHOOSE m \in 0..Len(l) :
                /\ \A i \in 1..m : l[i] # "#"
                /\ m = Len(l) \/ l[m + 1] = "#"
    IN SubSeq(l, 1, n)

IsBlank(c) == c \in {" ", "\t"}

\* s without its leading and trailing blanks
Trimmed(s) ==
    LET inner == {i \in 1..Len(s) : ~IsBlank(s[i])}
    IN IF inner = {} THEN <<>>
       ELSE SubSeq(s, CHOOSE i \in inner : \A j \in inner : i <= j,
                      CHOOSE i \in inner : \A j \in inner : j <= i)

\* the tokens of s: its maximal pieces free of blanks, as <<first, last>>
TokensOf(s) ==
    {tk \in (1..Len(s)) \X (1..Len(s)) :
        /\ tk[1] <= tk[2]
        /\ \A i \in tk[1]..tk[2] : ~IsBlank(s[i])
        /\ tk[1] = 1 \/ IsBlank(s[tk[1] - 1])
        /\ tk[2] = Len(s) \/ IsBlank(s[tk[2] + 1])}

\* what the claim says a line yields: whether a directive, its key and
\* value, and whether the separator was missing
ClaimedSplit(l) ==
    LET body   == Trimmed(BeforeComment(l))
        colons == {i \in 1..Len(body) : body[i] = ":"}
        tokens == TokensOf(body)
        none   == [directive |-> FALSE, key |-> <<>>, value |-> <<>>,
                   missingColon |-> FALSE]
    IN IF colons # {}
       THEN LET at  == CHOOSE i \in colons : \A j \in colons : i <= j
                key == Trimmed(SubSeq(body, 1, at - 1))
            IN IF key # <<>>
               THEN [directive |-> TRUE, key |-> key,
                     value |-> Trimmed(SubSeq(body, at + 1, Len(body))),
                     missingColon |-> FALSE]
               ELSE none
       ELSE IF Cardinality(tokens) = 2
       THEN LET t1 == CHOOSE tk \in tokens : \A u \in tokens : tk[1] <= u[1]
                t2 == CHOOSE tk \in tokens : \A u \in tokens : u[1] <= tk[1]
            IN [directive |-> TRUE, key |-> SubSeq(body, t1[1], t1[2]),
                value |-> SubSeq(body, t2[1], t2[2]), missingColon |-> TRUE]
       ELSE none

\* C27: the one line of the text yields a directive callback, with the key
\* and the value and the flag isMissingColonSeparator, exactly as the
\* claimed split says: at the first `:` when there is one (a directive iff
\* the trimmed key is not empty), as two tokens separated by spaces or tabs
\* when there is none, and no directive callback otherwise.
C27_KeyValueSplit ==
    ParserDone =>
        LET split == ClaimedSplit(Body)
        IN /\ MetadataOf(1).hasDirective = split.directive
           /\ MetadataOf(1).isMissingColonSeparator = split.missingColon
           /\ Len(DirectivesOf(1)) = (IF split.directive THEN 1 ELSE 0)
           /\ split.directive =>
                 /\ DirectivesOf(1)[1].kind = "Unknown"
                 /\ DirectivesOf(1)[1].action = Packed(split.key)
                 /\ DirectivesOf(1)[1].value = Packed(split.value)

\* a finished parse of a line of two tokens separated by a tab, with a
\* comment after them
C27_Witness ==
    /\ ParserDone
    /\ MetadataOf(1).isMissingColonSeparator
    /\ MetadataOf(1).hasComment
    /\ \E i \in 1..Len(Body) : Body[i] = "\t"
    /\ Len(DirectivesOf(1)) = 1
    /\ RunLen(DirectivesOf(1)[1].action) = 2

(***************************************************************************)
(* The parser on texts of one directive line `key:value`, for the          *)
(* classification of keys and the treatment of values.                     *)
(***************************************************************************)
\* longest suffix appended to a spelling of a key
MaxSuffixLen == 1

\* the spellings the code tests, canonical first
UserAgentSpellings ==
    << <<"u","s","e","r","-","a","g","e","n","t">>,
       <<"u","s","e","r","a","g","e","n","t">>,
       <<"u","s","e","r"," ","a","g","e","n","t">> >>
AllowSpellings == << <<"a","l","l","o","w">> >>
DisallowSpellings ==
    << <<"d","i","s","a","l","l","o","w">>,
       <<"d","i","s","s","a","l","l","o","w">>,
       <<"d","i","s","s","a","l","o","w">>,
       <<"d","i","s","a","l","o","w">>,
       <<"d","i","a","s","l","l","o","w">>,
       <<"d","i","s","a","l","l","a","w">> >>
SitemapSpellings ==
    << <<"s","i","t","e","m","a","p">>,
       <<"s","i","t","e","-","m","a","p">> >>

SpellingsOf(kind) ==
    CASE kind = "UserAgent" -> UserAgentSpellings
      [] kind = "Allow" -> AllowSpellings
      [] kind = "Disallow" -> DisallowSpellings
      [] kind = "Sitemap" -> SitemapSpellings

KnownKinds == {"UserAgent", "Allow", "Disallow", "Sitemap"}

AllSpellings ==
    UNION {{SpellingsOf(kind)[i] : i \in 1..Len(SpellingsOf(kind))} :
              kind \in KnownKinds}

toUpperCase(s) == [i \in 1..Len(s) |-> UpperChar(s[i])]

\* the keys explored: every spelling in lower and in upper case, followed
\* by a short suffix, preceded by a character, and cut short by one
KeyTexts ==
    UNION {
        {sp \o sfx : sfx \in StringsUpTo({"x"}, MaxSuffixLen)}
        \cup {toUpperCase(sp) \o sfx : sfx \in StringsUpTo({"x"}, MaxSuffixLen)}
        \cup {<<"x">> \o sp, SubSeq(sp, 1, Len(sp) - 1)}
      : sp \in AllSpellings}

\* the values explored: empty, a path with a lower-case % sequence, and a
\* character above 127
ValueTexts == { <<>>, <<"/", "%", "a", "f">>, <<"xEF">> }

KeyValueTexts ==
    {key \o <<":">> \o value : key \in KeyTexts, value \in ValueTexts}

InitKeys == InitParser(KeyValueTexts)

SpecKeys == InitKeys /\ [][NextParse]_vars

(***************************************************************************)
(* C28.  Classification of keys.  The claimed classification is restated   *)
(* on the key alone.                                                       *)
(***************************************************************************)
\* two characters are equal up to the case of a letter
SameIgnoringCase(c1, c2) ==
    \/ c1 = c2
    \/ \E j \in 1..26 : {c1, c2} = {LowerSeq[j], UpperSeq[j]}

StartsIgnoringCase(key, sp) ==
    /\ Len(key) >= Len(sp)
    /\ \A i \in 1..Len(sp) : SameIgnoringCase(key[i], sp[i])

\* the kinds one of whose spellings the key starts with
ClaimedKinds(key) ==
    {kind \in KnownKinds :
        \E i \in 1..Len(SpellingsOf(kind)) :
            StartsIgnoringCase(key, SpellingsOf(kind)[i])}

\* the key starts with a typo (a spelling after the first) of the kind
ClaimedTypo(key, kind) ==
    \E i \in 2..Len(SpellingsOf(kind)) :
        StartsIgnoringCase(key, SpellingsOf(kind)[i])

\* the key of the one line of the text
KeyOfBody == ClaimedSplit(Body).key

\* C28: the directive callback of a line is of kind UserAgent, Allow,
\* Disallow or Sitemap iff its key starts, ignoring case, with a spelling
\* of exactly that kind, and Unknown with the raw key otherwise;
\* isAcceptableTypo holds iff the spelling is one of the typos; no key
\* starts with spellings of two kinds.
C28_KeyClassification ==
    ParserDone =>
        LET kinds == ClaimedKinds(KeyOfBody)
            event == DirectivesOf(1)[1]
        IN /\ Len(DirectivesOf(1)) = 1
           /\ Cardinality(kinds) <= 1
           /\ \A kind \in KnownKinds : event.kind = kind <=> kind \in kinds
           /\ event.kind = "Unknown" <=> kinds = {}
           /\ event.kind = "Unknown" => event.action = Packed(KeyOfBody)
           /\ MetadataOf(1).isAcceptableTypo =
                 (\E kind \in kinds : ClaimedTypo(KeyOfBody, kind))

\* a finished parse of a line whose key is an upper-case typo of Disallow
\* followed by a suffix
C28_Witness ==
    /\ ParserDone
    /\ Body[1] = "D"
    /\ KeyOfBody[Len(KeyOfBody)] = "x"
    /\ DirectivesOf(1)[1].kind = "Disallow"
    /\ MetadataOf(1).isAcceptableTypo

(***************************************************************************)
(* C29.  Which values are normalised.                                      *)
(***************************************************************************)
\* the trimmed raw value of the one line of the text
ValueOfBody == ClaimedSplit(Body).value

\* C29: the value delivered with an Allow or Disallow callback is the
\* percent-encoding normalisation of the trimmed raw value, and the value
\* delivered with a User-Agent, Sitemap or Unknown callback is the trimmed
\* raw value itself.
C29_EscapeOnlyRules ==
    ParserDone =>
        LET event == DirectivesOf(1)[1]
        IN /\ event.kind \in {"Allow", "Disallow"} =>
                 event.value = Packed(maybeEscapePattern(ValueOfBody).escaped)
           /\ event.kind \in {"UserAgent", "Sitemap", "Unknown"} =>
                 event.value = Packed(ValueOfBody)

\* the part of C29 that holds: Allow and Disallow values are normalised,
\* User-Agent and Sitemap values are delivered raw
C29_EscapeRulesRawAgentSitemap ==
    ParserDone =>
        LET event == DirectivesOf(1)[1]
        IN /\ event.kind \in {"Allow", "Disallow"} =>
                 event.value = Packed(maybeEscapePattern(ValueOfBody).escaped)
           /\ event.kind \in {"UserAgent", "Sitemap"} =>
                 event.value = Packed(ValueOfBody)

(***************************************************************************)
(* C30.  The parser is total.                                              *)
(***************************************************************************)
\* the steps parse() has still to take: the start, one per unread
\* character, and the end
StepsLeft ==
    (CASE parser.pc = "new" -> 2 [] parser.pc = "loop" -> 1
       [] parser.pc = "done" -> 0)
    + (RunLen(parser.robotsBody) - parser.i)

\* the number of callbacks of a kind in the log
CountOf(kind) ==
    Cardinality({k \in 1..Len(parser.events) : parser.events[k].kind = kind})

\* what a finished parse has delivered: one start and one end hook; for a
\* line without key/value shape only a metadata report with
\* hasDirective = FALSE; for a line of key/value shape whose key starts
\* with no known spelling an Unknown callback
TotalOutcome ==
    ParserDone =>
        /\ CountOf("RobotsStart") = 1
        /\ CountOf("RobotsEnd") = 1
        /\ \A k \in 1..Len(TextLines) :
              LET split == ClaimedSplit(TextLines[k])
              IN /\ Cardinality({j \in MetadataPositions :
                                    parser.events[j].lineNum = k}) = 1
                 /\ ~split.directive =>
                       /\ DirectivesOf(k) = <<>>
                       /\ ~MetadataOf(k).hasDirective
                 /\ (split.directive /\ ClaimedKinds(split.key) = {}) =>
                       /\ Len(DirectivesOf(k)) = 1
                       /\ DirectivesOf(k)[1].kind = "Unknown"
                       /\ MetadataOf(k).hasDirective

\* C30: for every text, the empty text included, the parse terminates:
\* the number of steps left is a natural number, every step makes it
\* smaller, and it is 0 exactly when the parse has returned, no state
\* before that being an error state; the finished parse has called
\* handleRobotsStart and handleRobotsEnd exactly once each, has produced
\* only a metadata report with hasDirective = FALSE for a line without
\* key/value shape and an Unknown callback for a line of key/value shape
\* with an unrecognised key.
C30_ParserTotal ==
    /\ [](/\ StepsLeft \in Nat
          /\ parser.pc \in {"new", "loop", "done"}
          /\ StepsLeft = 0 <=> ParserDone)
    /\ [][StepsLeft' < StepsLeft]_vars
    /\ []TotalOutcome

\* a finished parse of a line without key/value shape followed by a line
\* with an unrecognised key
C30_Witness ==
    /\ ParserDone
    /\ Len(TextLines) = 2
    /\ TextLines[1] # <<>>
    /\ ~MetadataOf(1).hasDirective
    /\ Len(DirectivesOf(2)) = 1
    /\ DirectivesOf(2)[1].kind = "Unknown"

(***************************************************************************)
(* allowedByRobots on every URL over a small alphabet, for the path that   *)
(* getPathParamsQuery hands to initUserAgentsAndPath.                      *)
(***************************************************************************)
\* longest URL of the URL specification
MaxUrlLen == 4

UrlAlphabet == {"/", ":", "?", ";", "#", "a"}

UrlQueries ==
    {[userAgents |-> << <<"a">> >>, url |-> u] :
        u \in StringsUpTo(UrlAlphabet, MaxUrlLen)}

UrlParseStart == StartQuery(UrlQueries)

NextUrl == UrlParseStart \/ LineNoDirective \/ ParseEnd

SpecUrl == Init /\ [][NextUrl]_vars

(***************************************************************************)
(* C31                                                                     *)
(***************************************************************************)
\* C31: the path getPathParamsQuery extracts from any URL starts with `/`,
\* so allowedByRobots never ends in the usage error "Path must start with
\* /": once the call has started, the matcher holds a path starting with
\* `/` and the call is not in the error state.
C31_PathStartsWithSlash ==
    /\ phase # "error"
    /\ phase # "idle" =>
          /\ matcher.path = getPathParamsQuery(queryUrl)
          /\ Len(matcher.path) >= 1
          /\ matcher.path[1] = "/"

\* a call whose URL starts with `?`: the path is the URL after a slash
C31_Witness ==
    /\ phase = "done"
    /\ Len(queryUrl) = 2
    /\ queryUrl[1] = "?"
    /\ matcher.path = <<"/">> \o queryUrl

(***************************************************************************)
(* C32                                                                     *)
(***************************************************************************)
\* an iteration of the loop over the pattern is about to run
MatchIterating == mState.ret = "run" /\ mState.p < Len(mPattern)

\* C32: matches() makes at most |pattern| iterations of its outer loop (the
\* loop index counts them, every iteration either returns or advances it
\* by one, and it never exceeds |pattern|), and every iteration performs at
\* most |path| + 1 frontier steps; so the call ends after at most
\* |pattern| * (|path| + 1) steps.
C32_MatchesBounded ==
    /\ [](mState.ret # "idle" => mState.p \in 0..Len(mPattern))
    /\ [][MatchIterating =>
            /\ FrontierSteps(mPath, mPattern, mState) <= Len(mPath) + 1
            /\ \/ mState'.ret # "run"
               \/ mState'.p = mState.p + 1]_vars

\* a finished call on a path of three characters and a pattern with two
\* wildcards, which matched
C32_Witness ==
    /\ mState.ret = "true"
    /\ Len(mPath) = 3
    /\ Cardinality({i \in 1..Len(mPattern) : mPattern[i] = "*"}) >= 2
    /\ mState.p = Len(mPattern)
    /\ mState.numPos = Len(mPath) + 1


(***************************************************************************)
(* C38                                                                     *)
(***************************************************************************)
\* the frontier pos[0..numPos) of the call in progress
Frontier == [i \in 0..(mState.numPos - 1) |-> mState.pos[i]]

\* C38: at the start of every iteration of the loop over the pattern (and
\* at its exit) the frontier pos[0..numPos) is non-empty, lies within the
\* pos array, is strictly increasing and holds only positions of
\* 0..|path|; so its last element is its maximum, and the iteration reads
\* pos only at set slots and path only at positions below |path|.
C38_FrontierInvariant ==
    mState.ret = "run" =>
        /\ mState.numPos >= 1
        /\ mState.numPos <= Len(mPath) + 1
        /\ \A i \in 0..(mState.numPos - 1) :
              /\ i \in DOMAIN mState.pos
              /\ mState.pos[i] \in 0..Len(mPath)
              /\ i > 0 => mState.pos[i - 1] < mState.pos[i]
              /\ mState.pos[i] <= mState.pos[mState.numPos - 1]
              /\ mState.pos[i] < Len(mPath) =>
                    mState.pos[i] + 1 \in DOMAIN mPath

\* the loop is about to run its third iteration on a frontier of two
\* positions that does not start at 0 (a wildcard, then a literal)
C38_Witness ==
    /\ MatchIterating
    /\ mState.p = 2
    /\ mState.numPos = 2
    /\ Frontier[0] > 0
    /\ Frontier[1] = Len(mPath)


(***************************************************************************)
(* Calls on one shared ParsedRobots object.  After ParsedRobots.parse has  *)
(* built the object, checkUrl, checkUrls, hasSpecificAgent and             *)
(* getExplicitAgents are called on it in any order, for any agent and      *)
(* URLs; each call runs to completion (JavaScript runs one call at a       *)
(* time), so an interleaving of evaluations is a sequence of calls.        *)
(***************************************************************************)
MaxBulkLines == 3

BulkUserAgentValues == { <<"*">>, <<"A", "/", "1">>, <<"1">> }
BulkAllowValues == { <<"/", "a">>, <<"/", "i", "n", "d", "e", "x", ".", "h", "t", "m">> }
BulkDisallowValues == { <<>>, <<"/", "a">> }
BulkQueries == { [userAgents |-> << <<"a">> >>, url |-> <<"/", "a">>] }

\* the agents and URLs the built object is asked about
BulkAgents == { <<"a">>, <<"B">>, <<"c">> }
BulkUrls == { <<"/">>, <<"/", "a">>, <<"x", "/", "b">> }
BulkUrlLists == {<<>>} \cup {<<u, <<"/", "a">> >> : u \in BulkUrls}

BulkParseStart == StartQuery(BulkQueries)
BulkLineUserAgent == DeliverUserAgent(BulkUserAgentValues, MaxBulkLines)
BulkLineAllow == DeliverAllow(BulkAllowValues, MaxBulkLines)
BulkLineDisallow == DeliverDisallow(BulkDisallowValues, MaxBulkLines)

\* a call of a method on the built object: the object becomes call.self
Evaluate(op, userAgent, urls, call) ==
    /\ parsedRobots' = call.self
    /\ evaluation' = [op |-> op, userAgent |-> userAgent, urls |-> urls,
                      result |-> call.result]
    /\ UNCHANGED <<phase, queryUrl, matcher, collector, allowed, parserLine,
                   lines, calls, matchVars, parser>>

EvalCheckUrl ==
    /\ phase = "done"
    /\ \E userAgent \in BulkAgents, url \in BulkUrls :
          Evaluate("checkUrl", userAgent, <<url>>,
                   ParsedRobots_checkUrl(parsedRobots, userAgent, url))

EvalCheckUrls ==
    /\ phase = "done"
    /\ \E userAgent \in BulkAgents, urls \in BulkUrlLists :
          Evaluate("checkUrls", userAgent, urls,
                   ParsedRobots_checkUrls(parsedRobots, userAgent, urls))

EvalHasSpecificAgent ==
    /\ phase = "done"
    /\ \E userAgent \in BulkAgents :
          Evaluate("hasSpecificAgent", userAgent, <<>>,
                   ParsedRobots_hasSpecificAgent(parsedRobots, userAgent))

EvalGetExplicitAgents ==
    /\ phase = "done"
    /\ Evaluate("getExplicitAgents", <<>>, <<>>,
                ParsedRobots_getExplicitAgents(parsedRobots))

NextBulk ==
    \/ BulkParseStart
    \/ BulkLineUserAgent
    \/ BulkLineAllow
    \/ BulkLineDisallow
    \/ ParseEnd
    \/ EvalCheckUrl
    \/ EvalCheckUrls
    \/ EvalHasSpecificAgent
    \/ EvalGetExplicitAgents

SpecBulk == Init /\ [][NextBulk]_vars

(***************************************************************************)
(* C33                                                                     *)
(***************************************************************************)
\* the object as ParsedRobots.parse built it from the handler
FreshParsedRobots == ParsedRobots_parse(collector)

\* the value the last call returns when it is the only call made on a
\* freshly built object
ResultAlone ==
    CASE evaluation.op = "checkUrl" ->
            ParsedRobots_checkUrl(FreshParsedRobots, evaluation.userAgent,
                                  evaluation.urls[1]).result
      [] evaluation.op = "checkUrls" ->
            ParsedRobots_checkUrls(FreshParsedRobots, evaluation.userAgent,
                                   evaluation.urls).result
      [] evaluation.op = "hasSpecificAgent" ->
            ParsedRobots_hasSpecificAgent(FreshParsedRobots,
                                          evaluation.userAgent).result
      [] evaluation.op = "getExplicitAgents" ->
            ParsedRobots_getExplicitAgents(FreshParsedRobots).result

\* C33: a built ParsedRobots is immutable: no call of checkUrl, checkUrls,
\* hasSpecificAgent or getExplicitAgents changes its global rules, its
\* per-agent rule lists or its explicit-agent set, and every call made in
\* any sequence of calls on the shared object returns what it returns when
\* made alone on the freshly built object.
C33_BuiltIsImmutable ==
    /\ [](evaluation.op # "none" => evaluation.result = ResultAlone)
    /\ [][parsedRobots.built =>
            /\ parsedRobots'.globalRules = parsedRobots.globalRules
            /\ parsedRobots'.agentRulesMap = parsedRobots.agentRulesMap
            /\ parsedRobots'.explicitAgents = parsedRobots.explicitAgents]_vars

\* a checkUrls call for an agent without rules of its own has returned a
\* denial from the global rules, on an object that also holds rules of a
\* named agent
C33_Witness ==
    /\ evaluation.op = "checkUrls"
    /\ evaluation.userAgent = <<"c">>
    /\ Len(evaluation.urls) = 2
    /\ ~evaluation.result[2].allowed
    /\ DOMAIN parsedRobots.agentRulesMap # {}
    /\ parsedRobots.globalRules # <<>>


(***************************************************************************)
(* C34                                                                     *)
(***************************************************************************)
\* the four best candidates of the RobotsMatcher
Candidates(m) ==
    <<m.allow.global, m.allow.specific,
      m.disallowMatch.global, m.disallowMatch.specific>>

\* the best candidates of checkSingleUrl after the first k rules of a list
BestAfter(path, rules, k) ==
    BestOfRules(path, SubSeq(rules, 1, k), 1,
                [allow |-> NoBest, disallow |-> NoBest])

\* the indices of the rules of one kind that match the path
HitsOf(path, rules, isAllow) ==
    {i \in 1..Len(rules) :
        rules[i].isAllow = isAllow /\ matches(path, rules[i].pattern)}

\* the candidate that the first rule of maximal length among hits gives
FirstLongest(rules, hits) ==
    IF hits = {} THEN NoBest
    ELSE LET longest == {i \in hits : \A j \in hits :
                            Len(rules[j].pattern) <= Len(rules[i].pattern)}
             first == FirstOf(longest)
         IN [priority |-> Len(rules[first].pattern),
             line     |-> rules[first].lineNumber,
             pattern  |-> rules[first].pattern]

\* one candidate of checkSingleUrl either stays or gets a greater priority
Grows(old, new) == new = old \/ new.priority > old.priority

\* C34: between handleRobotsStart and handleRobotsEnd a best candidate of
\* the RobotsMatcher changes only to a strictly greater priority, and then
\* to the line being delivered; the candidates of checkSingleUrl change in
\* the same way along the rule list, which is in file order, so each
\* candidate is the first rule of its kind that reaches the maximal length
\* among the matching ones.
C34_CandidatesOnlyGrow ==
    /\ [][phase = "parsing" /\ phase' \in {"parsing", "done"} =>
            \A c \in 1..4 :
               \/ Candidates(matcher')[c] = Candidates(matcher)[c]
               \/ /\ Candidates(matcher')[c].priority
                        > Candidates(matcher)[c].priority
                  /\ Candidates(matcher')[c].line = parserLine'
                  /\ Candidates(matcher')[c].line > Candidates(matcher)[c].line
         ]_vars
    /\ [](phase = "done" =>
            \A userAgent \in BulkAgents, url \in BulkUrls :
               LET rules == RulesFor(parsedRobots, userAgent)
                   path  == getPathParamsQuery(url)
                   best  == BestAfter(path, rules, Len(rules))
               IN /\ \A i \in 1..(Len(rules) - 1) :
                        rules[i].lineNumber <= rules[i + 1].lineNumber
                  /\ \A k \in 0..(Len(rules) - 1) :
                        /\ Grows(BestAfter(path, rules, k).allow,
                                 BestAfter(path, rules, k + 1).allow)
                        /\ Grows(BestAfter(path, rules, k).disallow,
                                 BestAfter(path, rules, k + 1).disallow)
                  /\ best.allow = FirstLongest(rules, HitsOf(path, rules, TRUE))
                  /\ best.disallow
                        = FirstLongest(rules, HitsOf(path, rules, FALSE)))

\* two Allow lines of the same length matched in the scope of the queried
\* agent: the candidate of the matcher and the one of checkSingleUrl both
\* hold the first line
C34_Witness ==
    /\ phase = "done"
    /\ Len(lines) = 3
    /\ lines[2].kind = "allow" /\ lines[3].kind = "allow"
    /\ lines[2].value = lines[3].value
    /\ matcher.allow.specific = [priority |-> 2, line |-> 2]
    /\ BestAfter(queryUrl, RulesFor(parsedRobots, <<"a">>), 2).allow.line = 2
    /\ Len(RulesFor(parsedRobots, <<"a">>)) = 2


(***************************************************************************)
(* C35                                                                     *)
(***************************************************************************)
\* every character of s is one that String.prototype.trim removes
OnlyWhiteSpace(s) == \A i \in 1..Len(s) : s[i] \in WhiteSpace

ContainsHash(l) == \E i \in 1..Len(l) : l[i] = "#"

\* C35: the metadata reported for the line has hasComment iff the line
\* contains `#`, isComment iff it contains `#` with only whitespace before
\* the first one, isEmpty iff it contains no `#` and only whitespace; and
\* no two of isEmpty, isComment and hasDirective hold together.
C35_LineClassification ==
    ParserDone =>
        LET l == Body
            m == MetadataOf(1)
        IN /\ m.hasComment = ContainsHash(l)
           /\ m.isComment = (ContainsHash(l) /\ OnlyWhiteSpace(BeforeComment(l)))
           /\ m.isEmpty = (~ContainsHash(l) /\ OnlyWhiteSpace(l))
           /\ ~(m.isEmpty /\ m.isComment)
           /\ ~(m.isEmpty /\ m.hasDirective)
           /\ ~(m.isComment /\ m.hasDirective)

\* a finished parse of a line with blanks before its first #, reported as
\* a comment line
C35_Witness ==
    /\ ParserDone
    /\ Len(Body) >= 3
    /\ Body[1] = " " /\ Body[2] = "\t" /\ Body[3] = "#"
    /\ MetadataOf(1).isComment
    /\ MetadataOf(1).hasComment
    /\ ~MetadataOf(1).isEmpty


(***************************************************************************)
(* C36                                                                     *)
(***************************************************************************)
\* the lowercased name tokens of the User-agent lines of the text whose
\* value is not the global form and whose token is not empty
NamedAgents ==
    {toLowerCase(extractUserAgent(lines[i].value)) :
        i \in {j \in 1..Len(lines) :
                  /\ lines[j].kind = "user-agent"
                  /\ ~IsGlobalAgentValue(lines[j].value)
                  /\ Len(extractUserAgent(lines[j].value)) > 0}}

\* C36: getExplicitAgents() returns exactly the lowercased name tokens of
\* the User-agent lines of the parsed text whose value is not the global
\* `*` form and whose token is non-empty.
C36_ExplicitAgentsAreNamedAgents ==
    evaluation.op = "getExplicitAgents" => evaluation.result = NamedAgents

\* what the code returns: agents named in the text only, and every agent
\* of a group that holds a stored rule
C36_ExplicitAgentsOfStoredGroups ==
    evaluation.op = "getExplicitAgents" =>
        /\ evaluation.result \subseteq NamedAgents
        /\ evaluation.result =
              UNION {collector.agentGroups[g].agents :
                        g \in 1..Len(collector.agentGroups)}
        /\ \A g \in 1..Len(collector.agentGroups) :
              Len(collector.agentGroups[g].rules) > 0


(***************************************************************************)
(* C37                                                                     *)
(***************************************************************************)
\* the UrlCheckResults returned by the last call
ReturnedResults ==
    CASE evaluation.op = "checkUrl" -> {evaluation.result}
      [] evaluation.op = "checkUrls" ->
            {evaluation.result[i] : i \in 1..Len(evaluation.result)}
      [] OTHER -> {}

\* the rules stored in the object: the global ones and those of every agent
StoredRules ==
    {parsedRobots.globalRules[i] : i \in 1..Len(parsedRobots.globalRules)}
      \cup UNION {{parsedRobots.agentRulesMap[agent][i] :
                      i \in 1..Len(parsedRobots.agentRulesMap[agent])} :
                  agent \in DOMAIN parsedRobots.agentRulesMap}

\* C37: every UrlCheckResult returned by checkUrl/checkUrls has allowed
\* false iff matchedRuleType is "disallow"; matchedRuleType "none" iff
\* matchingLine 0 iff matchedPattern empty; and when a rule matched,
\* matchedPattern is a stored pattern of the kind matchedRuleType on line
\* matchingLine that matches the path of the URL.
C37_ResultSelfConsistent ==
    \A r \in ReturnedResults :
        /\ r.url \in {evaluation.urls[i] : i \in 1..Len(evaluation.urls)}
        /\ (~r.allowed) = (r.matchedRuleType = "disallow")
        /\ r.matchedRuleType \in {"allow", "disallow", "none"}
        /\ (r.matchedRuleType = "none") = (r.matchingLine = 0)
        /\ (r.matchingLine = 0) = (r.matchedPattern = <<>>)
        /\ r.matchedRuleType # "none" =>
              \E rule \in StoredRules :
                 /\ rule.pattern = r.matchedPattern
                 /\ rule.lineNumber = r.matchingLine
                 /\ rule.isAllow = (r.matchedRuleType = "allow")
                 /\ matches(getPathParamsQuery(r.url), rule.pattern)

\* checkUrl has returned a result decided by a tie between an Allow and a
\* Disallow rule of the same length
C37_Witness ==
    /\ evaluation.op = "checkUrl"
    /\ evaluation.result.matchedRuleType = "allow"
    /\ evaluation.result.allowed
    /\ evaluation.result.bestAllowPriority = 2
    /\ evaluation.result.bestDisallowPriority = 2
    /\ evaluation.result.matchingLine > 0


(***************************************************************************)
(* C39                                                                     *)
(***************************************************************************)
\* C39: in every state of the RobotsMatcher, seenSeparator implies
\* seenGlobalAgent or seenSpecificAgent; seenSpecificAgent implies
\* everSeenSpecificAgent; a specific candidate with priority >= 0 implies
\* everSeenSpecificAgent; and every candidate has priority >= -1, with
\* priority -1 exactly when its line is 0.
C39_MatcherFlagsConsistent ==
    /\ matcher.seenSeparator =>
          matcher.seenGlobalAgent \/ matcher.seenSpecificAgent
    /\ matcher.seenSpecificAgent => matcher.everSeenSpecificAgentFlag
    /\ \/ matcher.allow.specific.priority >= 0
       \/ matcher.disallowMatch.specific.priority >= 0
       => matcher.everSeenSpecificAgentFlag
    /\ \A c \in 1..4 :
          /\ Candidates(matcher)[c].priority >= K_NO_MATCH_PRIORITY
          /\ (Candidates(matcher)[c].priority = K_NO_MATCH_PRIORITY)
                = (Candidates(matcher)[c].line = 0)

\* during a parse, after two rule lines in the group of the queried agent:
\* a specific Disallow candidate and a specific Allow candidate of priority
\* 0 (an Allow line with an empty value) are recorded with their lines
C39_Witness ==
    /\ phase = "parsing"
    /\ matcher.seenSeparator
    /\ matcher.seenSpecificAgent
    /\ ~matcher.seenGlobalAgent
    /\ matcher.disallowMatch.specific = [priority |-> 2, line |-> 2]
    /\ matcher.allow.specific = [priority |-> 0, line |-> 3]


(***************************************************************************)
(* C40                                                                     *)
(***************************************************************************)
\* C40: for every logical line, a directive callback (user-agent, allow,
\* disallow, sitemap or unknown) is delivered iff the metadata reported for
\* the line has hasDirective, and then exactly one; isAcceptableTypo and
\* isMissingColonSeparator are set only on lines with hasDirective.
C40_DirectiveIffHasDirective ==
    ParserDone =>
        \A k \in 1..Len(parser.emitted) :
            /\ (Len(DirectivesOf(k)) > 0) = MetadataOf(k).hasDirective
            /\ Len(DirectivesOf(k)) <= 1
            /\ MetadataOf(k).isAcceptableTypo => MetadataOf(k).hasDirective
            /\ MetadataOf(k).isMissingColonSeparator
                  => MetadataOf(k).hasDirective

\* a finished parse of a line `a:` followed by a comment: one callback,
\* hasDirective set, the separator not missing
C40_Witness ==
    /\ ParserDone
    /\ Len(Body) >= 3
    /\ Body[1] = "a" /\ Body[2] = ":" /\ Body[3] = "#"
    /\ MetadataOf(1).hasDirective
    /\ ~MetadataOf(1).isMissingColonSeparator
    /\ Len(DirectivesOf(1)) = 1

====
